---- MODULE Spec2Model ----
(***************************************************************************)
(* A model of ECPy (cslashm/ECPy): the curve registry, the point           *)
(* arithmetic of the three curve families, point encodings and the         *)
(* signature formatters, translated from src/src/ecpy/*.py.                *)
(*                                                                         *)
(* Python values are modelled as follows.                                  *)
(*   - an int is an Int; the registry's literal domain parameters, which   *)
(*     exceed TLC's integers, are kept as the source's literals (strings)  *)
(*     and evaluated by the multi-precision operators of section 3;        *)
(*   - None is <<>> and a present value v is <<v>> wherever a value may    *)
(*     be None; a Point attribute that __init__ never assigned is <<>>;    *)
(*   - bytes / bytearray / list of ints are sequences of 0..255;           *)
(*   - a call's outcome is [raised |-> exception name or "", val |-> v].   *)
(***************************************************************************)
EXTENDS Integers, Sequences, FiniteSets, TLC

VARIABLES
    curves,   \* curves.py: the module-level parameter table `curves`
    heap,     \* the Curve objects constructed so far (identity = index)
    op,       \* the operation the current call runs ("idle" before a call)
    args,     \* its arguments
    pc,       \* its position: "idle", "loop" (inside mul_point's for), "done"
    loc,      \* its local variables
    ret       \* its outcome

vars == <<curves, heap, op, args, pc, loc, ret>>

(***************************************************************************)
(* 1. Python primitives                                                    *)
(***************************************************************************)
None == <<>>
Some(v) == <<v>>

Ret(v) == [raised |-> "", val |-> v]
Raise(e) == [raised |-> e, val |-> None]

\* Python truthiness of an int-or-None: `if x:`
Truthy(o) == o # None /\ o[1] # 0

Min(a, b) == IF a <= b THEN a ELSE b

Reverse(b) == IF b = <<>> THEN <<>> ELSE [i \in 1..Len(b) |-> b[Len(b) + 1 - i]]

\* (v.bit_length()+7)//8
RECURSIVE ByteLen(_)
ByteLen(v) == IF v = 0 THEN 0 ELSE 1 + ByteLen(v \div 256)

\* v.to_bytes(n, ...) raises OverflowError unless 0 <= v < 256^n
FitsBytes(v, n) == v >= 0 /\ (n >= 4 \/ v < 256^n)

to_bytes_little(v, n) ==
    IF v = 0 THEN [i \in 1..n |-> 0]
    ELSE [i \in 1..n |-> IF i <= 4 THEN (v \div 256^(i - 1)) % 256 ELSE 0]

to_bytes_big(v, n) == Reverse(to_bytes_little(v, n))

RECURSIVE from_bytes_little(_)
from_bytes_little(b) ==
    IF b = <<>> THEN 0
    ELSE IF Len(b) = 1 THEN b[1]
    ELSE LET half == Len(b) \div 2
             high == from_bytes_little(SubSeq(b, half + 1, Len(b)))
         IN  IF high = 0 THEN from_bytes_little(SubSeq(b, 1, half))
             ELSE from_bytes_little(SubSeq(b, 1, half)) + 256^half * high

from_bytes_big(b) == from_bytes_little(Reverse(b))

\* seq[a:b] with 0 <= a <= b: a slice never raises, it is cut at the end
PySlice(b, lo, hi) == SubSeq(b, lo + 1, Min(hi, Len(b)))

\* seq[i] (0-based); the caller guards i < Len(b), else IndexError
PyAt(b, i) == b[i + 1]

(***************************************************************************)
(* 2. formatters.py                                                        *)
(***************************************************************************)
\* Mutant of der_int: the 0x00 prefix of a magnitude with its top bit set
\* is left out.
der_int_noprefix(v) == to_bytes_big(v, ByteLen(v))

\* formatters.py:40-45, one INTEGER body: minimal big-endian magnitude,
\* b'\0' prepended when the first byte has bit 7 set.  v = 0 gives b'' and
\* the code's r[0] raises IndexError: encode_sig guards that.
der_int(v) ==
    LET m == to_bytes_big(v, ByteLen(v))
    IN  IF m[1] >= 128 THEN <<0>> \o m ELSE m

\* Mutant of encode_pair: s is written before r.
encode_pair_swapped(r, s, size, little) ==
    IF ~FitsBytes(r, size) \/ ~FitsBytes(s, size) THEN Raise("OverflowError")
    ELSE IF little THEN Ret(to_bytes_little(s, size) \o to_bytes_little(r, size))
    ELSE Ret(to_bytes_big(s, size) \o to_bytes_big(r, size))

\* formatters.py:62-64 and 69-71: r.to_bytes(size, order) + s.to_bytes(size, order)
encode_pair(r, s, size, little) ==
    IF ~FitsBytes(r, size) \/ ~FitsBytes(s, size) THEN Raise("OverflowError")
    ELSE IF little THEN Ret(to_bytes_little(r, size) \o to_bytes_little(s, size))
    ELSE Ret(to_bytes_big(r, size) \o to_bytes_big(s, size))

\* an unknown fmt falls off the end of the function: None.  With size = 0
\* the raise statement names ECPyException, which formatters.py does not
\* import: NameError.
encode_sig(r, s, fmt, size) ==
    IF fmt = "DER" THEN
        IF r = 0 \/ s = 0 THEN Raise("IndexError")
        ELSE LET rb == der_int(r)
                 sb == der_int(s)
             IN  IF ~FitsBytes(Len(rb) + Len(sb) + 4, 1) \/ ~FitsBytes(Len(rb), 1)
                    \/ ~FitsBytes(Len(sb), 1)
                 THEN Raise("OverflowError")
                 ELSE Ret(<<48>> \o to_bytes_big(Len(rb) + Len(sb) + 4, 1)
                          \o <<2>> \o to_bytes_big(Len(rb), 1) \o rb
                          \o <<2>> \o to_bytes_big(Len(sb), 1) \o sb)
    ELSE IF fmt = "BTUPLE"
    THEN Ret(<<to_bytes_big(r, ByteLen(r)), to_bytes_big(s, ByteLen(s))>>)
    ELSE IF fmt = "ITUPLE" THEN Ret(<<r, s>>)
    ELSE IF fmt = "RAW"
    THEN IF size = 0 THEN Raise("NameError") ELSE encode_pair(r, s, size, FALSE)
    ELSE IF fmt = "EDDSA"
    THEN IF size = 0 THEN Raise("NameError") ELSE encode_pair(r, s, size, TRUE)
    ELSE Ret(None)

decode_sig(sig, fmt) ==
    IF fmt = "DER" THEN
        IF Len(sig) <= 1 THEN Raise("IndexError")              \* sig[1]
        ELSE IF Len(sig) <= 3 THEN Raise("IndexError")         \* sig[3]
        ELSE
            LET sig_len  == PyAt(sig, 1) + 2
                r_offset == 4
                r_len    == PyAt(sig, 3)
                s_offset == 4 + r_len + 2
            IN  IF Len(sig) <= 4 + r_len + 1 THEN Raise("IndexError")
                ELSE
                    LET s_len == PyAt(sig, 4 + r_len + 1)
                    IN  IF \/ PyAt(sig, 0) # 48
                           \/ sig_len # r_len + s_len + 6
                           \/ PyAt(sig, r_offset - 2) # 2
                           \/ PyAt(sig, s_offset - 2) # 2
                        THEN Ret(<<None, None>>)
                        ELSE Ret(<<Some(from_bytes_big(PySlice(sig, r_offset, r_offset + r_len))),
                                   Some(from_bytes_big(PySlice(sig, s_offset, s_offset + s_len)))>>)
    ELSE IF fmt = "ITUPLE"
    THEN IF Len(sig) < 2 THEN Raise("IndexError")
         ELSE Ret(<<PyAt(sig, 0), PyAt(sig, 1)>>)
    ELSE IF fmt = "BTUPLE"
    THEN IF Len(sig) < 2 THEN Raise("IndexError")
         ELSE Ret(<<from_bytes_big(PyAt(sig, 0)), from_bytes_big(PyAt(sig, 1))>>)
    ELSE IF fmt = "RAW"
    THEN Ret(<<from_bytes_big(PySlice(sig, 0, Len(sig) \div 2)),
               from_bytes_big(PySlice(sig, Len(sig) \div 2, Len(sig)))>>)
    ELSE IF fmt = "EDDSA"
    THEN Ret(<<from_bytes_little(PySlice(sig, 0, Len(sig) \div 2)),
               from_bytes_little(PySlice(sig, Len(sig) \div 2, Len(sig)))>>)
    ELSE Ret(None)

(***************************************************************************)
(* Signature codec: inputs and actions                                     *)
(***************************************************************************)
MaxSmallInt == 4
MaxSigBits == 17
MaxSigLen == 6
MaxSigSize == 3

\* r, s: small values, and the values around every power of two up to
\* 2^MaxSigBits (magnitudes of one to three bytes, top bit clear and set)
SigInts ==
    (1..MaxSmallInt)
    \cup ({2^e + d : e \in 0..MaxSigBits, d \in {0 - 1, 0, 1}} \ {0})

\* the bytes the strings handed to decode_sig are made of: the SEQUENCE and
\* INTEGER tags, and the lengths a string of at most MaxSigLen bytes can declare
SigAlphabet == {0, 2, 4, 6, 48}

SigStrings == UNION {[1..n -> SigAlphabet] : n \in 0..MaxSigLen}

Idle == op = "idle" /\ pc = "idle"

\* encode_sig(r, s, "DER")
CallEncodeSig ==
    /\ Idle
    /\ \E r \in SigInts, s \in SigInts :
          /\ args' = [r |-> r, s |-> s, fmt |-> "DER"]
          /\ ret' = encode_sig(r, s, "DER", 0)
    /\ op' = "encode_sig"
    /\ pc' = "done"
    /\ UNCHANGED <<curves, heap, loc>>

\* encode_sig(r, s, fmt, size) in the other formats; size is read by RAW and
\* EDDSA only and defaults to 0
CallEncodeSigAs ==
    /\ Idle
    /\ \E r \in SigInts \cup {0}, s \in SigInts \cup {0},
          fmt \in {"BTUPLE", "ITUPLE", "RAW", "EDDSA"}, size \in 0..MaxSigSize :
          /\ fmt \in {"BTUPLE", "ITUPLE"} => size = 0
          /\ args' = [r |-> r, s |-> s, fmt |-> fmt, size |-> size]
          /\ ret' = encode_sig(r, s, fmt, size)
    /\ op' = "encode_sig_as"
    /\ pc' = "done"
    /\ UNCHANGED <<curves, heap, loc>>

\* decode_sig(sig, fmt) of the signature encode_sig returned in that format
CallDecodeEncodedAs ==
    /\ op = "encode_sig_as" /\ pc = "done" /\ ret.raised = ""
    /\ op' = "decode_encoded_as"
    /\ loc' = [sig |-> ret.val]
    /\ ret' = decode_sig(ret.val, args.fmt)
    /\ UNCHANGED <<curves, heap, args, pc>>

\* decode_sig(sig, "DER") of the signature encode_sig returned
CallDecodeEncoded ==
    /\ op = "encode_sig" /\ pc = "done" /\ ret.raised = ""
    /\ op' = "decode_encoded"
    /\ loc' = [sig |-> ret.val]
    /\ ret' = decode_sig(ret.val, args.fmt)
    /\ UNCHANGED <<curves, heap, args, pc>>

\* decode_sig(sig, "DER") of any byte string
CallDecodeSig ==
    /\ Idle
    /\ \E sig \in SigStrings :
          /\ args' = [sig |-> sig, fmt |-> "DER"]
          /\ ret' = decode_sig(sig, "DER")
    /\ op' = "decode_sig"
    /\ pc' = "done"
    /\ UNCHANGED <<curves, heap, loc>>

InitIdle ==
    /\ op = "idle"
    /\ pc = "idle"
    /\ args = None
    /\ loc = None
    /\ ret = None

InitSig == InitIdle /\ curves = <<>> /\ heap = <<>>

NextSig ==
    \/ CallEncodeSig
    \/ CallDecodeEncoded
    \/ CallDecodeSig
    \/ CallEncodeSigAs
    \/ CallDecodeEncodedAs

SpecSig == InitSig /\ [][NextSig]_vars

(***************************************************************************)
(* C9: for all r, s >= 1, decode_sig(encode_sig(r, s, "DER"), "DER")        *)
(* returns (r, s), and the encoding is 0x30 len 0x02 len(r) r 0x02 len(s) s *)
(* where r and s are minimal big-endian magnitudes, prefixed by one 0x00    *)
(* byte exactly when the magnitude's top bit is set.                        *)
(***************************************************************************)
\* b is the DER INTEGER body of v: value v, first byte 1..127, or one 0x00
\* followed by a byte with its top bit set
IsDerIntOf(b, v) ==
    /\ Len(b) >= 1
    /\ from_bytes_big(b) = v
    /\ \/ b[1] \in 1..127
       \/ b[1] = 0 /\ Len(b) >= 2 /\ b[2] >= 128

IsDerSigOf(sig, r, s) ==
    /\ Len(sig) >= 6
    /\ sig[1] = 48
    /\ sig[2] = Len(sig) - 2
    /\ sig[3] = 2
    /\ LET rl == sig[4]
       IN  /\ Len(sig) >= 6 + rl
           /\ IsDerIntOf(SubSeq(sig, 5, 4 + rl), r)
           /\ sig[5 + rl] = 2
           /\ LET sl == sig[6 + rl]
              IN  /\ Len(sig) = 6 + rl + sl
                  /\ IsDerIntOf(SubSeq(sig, 7 + rl, 6 + rl + sl), s)

C9_DerRoundTrip ==
    /\ op = "encode_sig" => ret.raised = "" /\ IsDerSigOf(ret.val, args.r, args.s)
    /\ op = "decode_encoded" => ret = Ret(<<Some(args.r), Some(args.s)>>)

\* a round trip of a pair whose two magnitudes have their top bit set
C9_Witness ==
    /\ op = "decode_encoded"
    /\ args.r = 128 /\ args.s = 65535
    /\ loc.sig = <<48, 9, 2, 2, 0, 128, 2, 3, 0, 255, 255>>
    /\ ret.val = <<Some(128), Some(65535)>>

(***************************************************************************)
(* C10: decode_sig(sig, "DER") returns (None, None), and does not raise,    *)
(* for every byte string that is not a well-formed SEQUENCE of two          *)
(* INTEGERs (wrong tag, wrong declared length, or too short).               *)
(***************************************************************************)
WellFormedDER(sig) ==
    /\ Len(sig) >= 4
    /\ Len(sig) >= 6 + sig[4]
    /\ sig[1] = 48
    /\ sig[3] = 2
    /\ sig[5 + sig[4]] = 2
    /\ sig[2] = sig[4] + sig[6 + sig[4]] + 4
    /\ Len(sig) >= 6 + sig[4] + sig[6 + sig[4]]

C10_MalformedIsAbsent ==
    (op = "decode_sig" /\ ~WellFormedDER(args.sig)) => ret = Ret(<<None, None>>)

(***************************************************************************)
(* C11: for fmt RAW and EDDSA, every size >= 1 and all r, s with           *)
(* 0 <= r, s < 256^size, encode_sig(r, s, fmt, size) is exactly 2*size     *)
(* bytes, r then s, big-endian for RAW and little-endian for EDDSA, and    *)
(* decode_sig of it with the same fmt returns (r, s); BTUPLE and ITUPLE    *)
(* round-trip every pair of non-negative integers.                         *)
(***************************************************************************)
\* b[from+1..from+n] holds v on n bytes, most significant byte first or last
RECURSIVE HoldsValue(_, _, _, _, _)
HoldsValue(b, from, n, v, little) ==
    IF n = 0 THEN v = 0
    ELSE /\ b[from + (IF little THEN 1 ELSE n)] = v % 256
         /\ HoldsValue(b, IF little THEN from + 1 ELSE from, n - 1, v \div 256, little)

\* v < 256^n
RECURSIVE Below256(_, _)
Below256(v, n) == IF n = 0 THEN v = 0 ELSE Below256(v \div 256, n - 1)

C11_InScope ==
    /\ op \in {"encode_sig_as", "decode_encoded_as"}
    /\ args.fmt \in {"RAW", "EDDSA"} =>
          args.size >= 1 /\ Below256(args.r, args.size) /\ Below256(args.s, args.size)

C11_FixedWidthRoundTrip ==
    C11_InScope =>
      /\ ret.raised = ""
      /\ (op = "encode_sig_as" /\ args.fmt \in {"RAW", "EDDSA"}) =>
            /\ Len(ret.val) = 2 * args.size
            /\ HoldsValue(ret.val, 0, args.size, args.r, args.fmt = "EDDSA")
            /\ HoldsValue(ret.val, args.size, args.size, args.s, args.fmt = "EDDSA")
      /\ op = "decode_encoded_as" => ret.val = <<args.r, args.s>>

\* an EDDSA round trip of two values that differ and fill the width
C11_Witness ==
    /\ op = "decode_encoded_as"
    /\ args.fmt = "EDDSA" /\ args.size = 2 /\ args.r = 257 /\ args.s = 65535
    /\ loc.sig = <<1, 1, 255, 255>>
    /\ ret.val = <<257, 65535>>

(***************************************************************************)
(* 3. Python's unbounded ints, for the registry's literals                 *)
(*                                                                         *)
(* A magnitude is a little-endian sequence of limbs in base 16^6, without  *)
(* leading zero limbs (0 is <<>>).  A literal is the source's text:        *)
(* "0x..." or decimal digits, with an optional leading "-".                *)
(***************************************************************************)
LimbBase == 16^6

Max(a, b) == IF a >= b THEN a ELSE b

DigitVal(c) ==
    CASE c = "0" -> 0 [] c = "1" -> 1 [] c = "2" -> 2 [] c = "3" -> 3
      [] c = "4" -> 4 [] c = "5" -> 5 [] c = "6" -> 6 [] c = "7" -> 7
      [] c = "8" -> 8 [] c = "9" -> 9
      [] c \in {"a", "A"} -> 10 [] c \in {"b", "B"} -> 11
      [] c \in {"c", "C"} -> 12 [] c \in {"d", "D"} -> 13
      [] c \in {"e", "E"} -> 14 [] c \in {"f", "F"} -> 15

\* limb i of a magnitude, 0 above its length
Limb(a, i) == IF i <= Len(a) THEN a[i] ELSE 0

\* the index of the highest nonzero limb, 0 if there is none
TopLimb(a) ==
    IF \A i \in DOMAIN a : a[i] = 0 THEN 0
    ELSE CHOOSE i \in DOMAIN a : a[i] # 0 /\ \A j \in (i + 1)..Len(a) : a[j] = 0

\* a without its leading zero limbs
BigTrim(a) == SubSeq(a, 1, TopLimb(a))

\* a * m + c for small m, c
RECURSIVE BigMulSmallAdd(_, _, _)
BigMulSmallAdd(a, m, c) ==
    IF a = <<>> THEN (IF c = 0 THEN <<>> ELSE <<c>>)
    ELSE <<(Head(a) * m + c) % LimbBase>>
         \o BigMulSmallAdd(Tail(a), m, (Head(a) * m + c) \div LimbBase)

\* the value of the hex digits s[lo..hi] (at most six)
RECURSIVE HexChunk(_, _, _)
HexChunk(s, lo, hi) ==
    IF hi < lo THEN 0
    ELSE 16 * HexChunk(s, lo, hi - 1) + DigitVal(SubSeq(s, hi, hi))

\* the hex digits s[from..], six to a limb from the right
HexLimbs(s, from) ==
    BigTrim([k \in 1..((Len(s) - from + 6) \div 6) |->
                HexChunk(s, Max(from, Len(s) - 6 * k + 1), Len(s) - 6 * (k - 1))])

\* the decimal digits s[lo..hi] appended to the value acc, most
\* significant digit first
RECURSIVE DecLimbs(_, _, _, _)
DecLimbsLower(upper, s, lo, hi) ==
    IF Len(upper) >= 0 THEN DecLimbs(s, upper, lo, hi) ELSE <<>>

DecLimbs(s, acc, lo, hi) ==
    IF hi < lo THEN acc
    ELSE IF hi = lo THEN BigMulSmallAdd(acc, 10, DigitVal(SubSeq(s, lo, lo)))
    ELSE DecLimbsLower(DecLimbs(s, acc, lo, (lo + hi) \div 2),
                       s, (lo + hi) \div 2 + 1, hi)

LitNeg(s) == Len(s) >= 1 /\ SubSeq(s, 1, 1) = "-"

\* the value of an unsigned literal
LitDigits(t) ==
    IF Len(t) >= 2 /\ SubSeq(t, 1, 2) = "0x" THEN HexLimbs(t, 3)
    ELSE DecLimbs(t, <<>>, 1, Len(t))

\* |value| of a literal, digit by digit
LitParse(s) == LitDigits(IF LitNeg(s) THEN SubSeq(s, 2, Len(s)) ELSE s)

RECURSIVE BigLessFrom(_, _, _)
BigLessFrom(a, b, i) ==
    IF i = 0 THEN FALSE
    ELSE IF a[i] # b[i] THEN a[i] < b[i] ELSE BigLessFrom(a, b, i - 1)

BigLess(a, b) ==
    IF Len(a) # Len(b) THEN Len(a) < Len(b) ELSE BigLessFrom(a, b, Len(a))

\* limbs i.. of a + b + c, for a carry c into limb i
RECURSIVE BigAddC(_, _, _, _)
BigAddC(a, b, i, c) ==
    IF i > Len(a) /\ i > Len(b) THEN (IF c = 0 THEN <<>> ELSE <<c>>)
    ELSE <<(Limb(a, i) + Limb(b, i) + c) % LimbBase>>
         \o BigAddC(a, b, i + 1, (Limb(a, i) + Limb(b, i) + c) \div LimbBase)

BigAdd(a, b) == BigAddC(a, b, 1, 0)

\* limbs i.. of a - b - c, for a borrow c from limb i
RECURSIVE BigSubB(_, _, _, _)
BigSubB(a, b, i, c) ==
    IF i > Len(a) THEN <<>>
    ELSE <<(a[i] - Limb(b, i) - c) % LimbBase>>
         \o BigSubB(a, b, i + 1, IF a[i] - Limb(b, i) - c < 0 THEN 1 ELSE 0)

\* a - b for a >= b
BigSub(a, b) == BigTrim(BigSubB(a, b, 1, 0))

\* t % q for t < 2*q
BigReduceOnce(t, q) == IF BigLess(t, q) THEN t ELSE BigSub(t, q)

\* (a + b) % q for a, b < q
BigAddMod(a, b, q) == BigReduceOnce(BigAdd(a, b), q)

\* bit i of b
BigBit(b, i) ==
    IF (i \div 24) + 1 > Len(b) THEN 0
    ELSE (b[(i \div 24) + 1] \div 2^(i % 24)) % 2

\* (acc * 2^(hi-lo) + a * b[lo..hi-1]) % q, most significant bit first
RECURSIVE MulModRange(_, _, _, _, _, _)
MulModBit(d, a, b, q, lo) ==
    IF BigBit(b, lo) = 1 THEN BigAddMod(d, a, q) ELSE d

MulModLower(upper, a, b, q, lo, mid) ==
    IF Len(upper) >= 0 THEN MulModRange(a, b, q, upper, lo, mid) ELSE <<>>

MulModRange(a, b, q, acc, lo, hi) ==
    IF hi - lo = 1 THEN MulModBit(BigAddMod(acc, acc, q), a, b, q, lo)
    ELSE MulModLower(MulModRange(a, b, q, acc, (lo + hi) \div 2, hi),
                     a, b, q, lo, (lo + hi) \div 2)

\* (a * b) % q for a < q
BigMulMod(a, b, q) ==
    IF Len(a) = 0 \/ Len(b) = 0 THEN <<>>
    ELSE MulModRange(a, b, q, <<>>, 0, 24 * Len(b))

\* v % q
BigMod(v, q) == IF BigLess(v, q) THEN v ELSE BigMulMod(<<1>>, v, q)

\* (acc^(2^(hi-lo)) * a^(e[lo..hi-1])) % q, most significant bit first
RECURSIVE PowModRange(_, _, _, _, _, _)
PowModBit(d, a, e, q, lo) ==
    IF BigBit(e, lo) = 1 THEN BigMulMod(d, a, q) ELSE d

PowModLower(upper, a, e, q, lo, mid) ==
    IF Len(upper) >= 0 THEN PowModRange(a, e, q, upper, lo, mid) ELSE <<>>

PowModRange(a, e, q, acc, lo, hi) ==
    IF hi - lo = 1 THEN PowModBit(BigMulMod(acc, acc, q), a, e, q, lo)
    ELSE PowModLower(PowModRange(a, e, q, acc, (lo + hi) \div 2, hi),
                     a, e, q, lo, (lo + hi) \div 2)

\* pow(a, (p-1)//2, p) for a < p, p odd
BigEuler(a, p) ==
    PowModRange(a, BigSub(p, <<1>>), p, BigMod(<<1>>, p), 1, 24 * Len(p))

\* a // m for small m > 0
RECURSIVE BigDivSmallFrom(_, _, _, _)
BigDivSmallFrom(a, m, i, r) ==
    IF i = 0 THEN <<>>
    ELSE Append(BigDivSmallFrom(a, m, i - 1, (r * LimbBase + a[i]) % m),
                (r * LimbBase + a[i]) \div m)

BigDivSmall(a, m) == BigTrim(BigDivSmallFrom(a, m, Len(a), 0))

\* curves.py:898-1340, the literal parameter table
curves_literal == <<
    [name |-> "frp256v1",
     type |-> "weierstrass",
     size |-> 256,
     field |-> "0xF1FD178C0B3AD58F10126DE8CE42435B3961ADBCABC8CA6DE8FCF353D86E9C03",
     generator |-> <<"0xB6B3D4C356C139EB31183D4749D423958C27D2DCAF98B70164C97A2DD98F5CFF",
                    "0x6142E0F7C8B204911F9271F0F3ECEF8C2701C307E8E4C9E183115A1554062CFB">>,
     order |-> "0xF1FD178C0B3AD58F10126DE8CE42435B53DC67E140D2BF941FFDD459C6D655E1",
     cofactor |-> 1,
     a |-> "0xF1FD178C0B3AD58F10126DE8CE42435B3961ADBCABC8CA6DE8FCF353D86E9C00",
     b |-> "0xEE353FCA5428A9300D4ABA754A44C00FDFEC0C9AE4B1A1803075ED967B7BB73F"],
    [name |-> "secp521r1",
     type |-> "weierstrass",
     size |-> 521,
     field |-> "0x01FFFFFFFFFFFFFFFFFFFFFFFFFFFFFFFFFFFFFFFFFFFFFFFFFFFFFFFFFFFFFFFFFFFFFFFFFFFFFFFFFFFFFFFFFFFFFFFFFFFFFFFFFFFFFFFFFFFFFFFFFFFFFFFFFF",
     generator |-> <<"0x00C6858E06B70404E9CD9E3ECB662395B4429C648139053FB521F828AF606B4D3DBAA14B5E77EFE75928FE1DC127A2FFA8DE3348B3C1856A429BF97E7E31C2E5BD66",
                    "0x011839296A789A3BC0045C8A5FB42C7D1BD998F54449579B446817AFBD17273E662C97EE72995EF42640C550B9013FAD0761353C7086A272C24088BE94769FD16650">>,
     order |-> "0x01FFFFFFFFFFFFFFFFFFFFFFFFFFFFFFFFFFFFFFFFFFFFFFFFFFFFFFFFFFFFFFFFFA51868783BF2F966B7FCC0148F709A5D03BB5C9B8899C47AEBB6FB71E91386409",
     cofactor |-> 1,
     a |-> "0x01FFFFFFFFFFFFFFFFFFFFFFFFFFFFFFFFFFFFFFFFFFFFFFFFFFFFFFFFFFFFFFFFFFFFFFFFFFFFFFFFFFFFFFFFFFFFFFFFFFFFFFFFFFFFFFFFFFFFFFFFFFFFFFFFFC",
     b |-> "0x0051953EB9618E1C9A1F929A21A0B68540EEA2DA725B99B315F3B8B489918EF109E156193951EC7E937B1652C0BD3BB1BF073573DF883D2C34F1EF451FD46B503F00"],
    [name |-> "secp384r1",
     type |-> "weierstrass",
     size |-> 384,
     field |-> "0xfffffffffffffffffffffffffffffffffffffffffffffffffffffffffffffffeffffffff0000000000000000ffffffff",
     generator |-> <<"0xaa87ca22be8b05378eb1c71ef320ad746e1d3b628ba79b9859f741e082542a385502f25dbf55296c3a545e3872760ab7",
                    "0x3617de4a96262c6f5d9e98bf9292dc29f8f41dbd289a147ce9da3113b5f0b8c00a60b1ce1d7e819d7a431d7c90ea0e5f">>,
     order |-> "0xffffffffffffffffffffffffffffffffffffffffffffffffc7634d81f4372ddf581a0db248b0a77aecec196accc52973",
     cofactor |-> 1,
     a |-> "0xfffffffffffffffffffffffffffffffffffffffffffffffffffffffffffffffeffffffff0000000000000000fffffffc",
     b |-> "0xb3312fa7e23ee7e4988e056be3f82d19181d9c6efe8141120314088f5013875ac656398d8a2ed19d2a85c8edd3ec2aef"],
    [name |-> "secp256k1",
     type |-> "weierstrass",
     size |-> 256,
     field |-> "0xfffffffffffffffffffffffffffffffffffffffffffffffffffffffefffffc2f",
     generator |-> <<"0x79be667ef9dcbbac55a06295ce870b07029bfcdb2dce28d959f2815b16f81798",
                    "0x483ada7726a3c4655da4fbfc0e1108a8fd17b448a68554199c47d08ffb10d4b8">>,
     order |-> "0xfffffffffffffffffffffffffffffffebaaedce6af48a03bbfd25e8cd0364141",
     cofactor |-> 1,
     a |-> "0",
     b |-> "7"],
    [name |-> "secp256r1",
     type |-> "weierstrass",
     size |-> 256,
     field |-> "0xffffffff00000001000000000000000000000000ffffffffffffffffffffffff",
     generator |-> <<"0x6b17d1f2e12c4247f8bce6e563a440f277037d812deb33a0f4a13945d898c296",
                    "0x4fe342e2fe1a7f9b8ee7eb4a7c0f9e162bce33576b315ececbb6406837bf51f5">>,
     order |-> "0xffffffff00000000ffffffffffffffffbce6faada7179e84f3b9cac2fc632551",
     cofactor |-> 1,
     a |-> "0xffffffff00000001000000000000000000000000fffffffffffffffffffffffc",
     b |-> "0x5ac635d8aa3a93e7b3ebbd55769886bc651d06b0cc53b0f63bce3c3e27d2604b"],
    [name |-> "secp224k1",
     type |-> "weierstrass",
     size |-> 224,
     field |-> "0xFFFFFFFFFFFFFFFFFFFFFFFFFFFFFFFFFFFFFFFFFFFFFFFEFFFFE56D",
     generator |-> <<"0xA1455B334DF099DF30FC28A169A467E9E47075A90F7E650EB6B7A45C",
                    "0x7E089FED7FBA344282CAFBD6F7E319F7C0B0BD59E2CA4BDB556D61A5">>,
     order |-> "0x010000000000000000000000000001DCE8D2EC6184CAF0A971769FB1F7",
     cofactor |-> 1,
     a |-> "0x0",
     b |-> "0x5"],
    [name |-> "secp224r1",
     type |-> "weierstrass",
     size |-> 224,
     field |-> "0xFFFFFFFFFFFFFFFFFFFFFFFFFFFFFFFF000000000000000000000001",
     generator |-> <<"0xB70E0CBD6BB4BF7F321390B94A03C1D356C21122343280D6115C1D21",
                    "0xBD376388B5F723FB4C22DFE6CD4375A05A07476444D5819985007E34">>,
     order |-> "0xFFFFFFFFFFFFFFFFFFFFFFFFFFFF16A2E0B8F03E13DD29455C5C2A3D",
     cofactor |-> 1,
     a |-> "0xFFFFFFFFFFFFFFFFFFFFFFFFFFFFFFFEFFFFFFFFFFFFFFFFFFFFFFFE",
     b |-> "0xB4050A850C04B3ABF54132565044B0B7D7BFD8BA270B39432355FFB4"],
    [name |-> "secp192k1",
     type |-> "weierstrass",
     size |-> 192,
     field |-> "0xfffffffffffffffffffffffffffffffffffffffeffffee37",
     generator |-> <<"0xdb4ff10ec057e9ae26b07d0280b7f4341da5d1b1eae06c7d",
                    "0x9b2f2f6d9c5628a7844163d015be86344082aa88d95e2f9d">>,
     order |-> "0xfffffffffffffffffffffffe26f2fc170f69466a74defd8d",
     cofactor |-> 1,
     a |-> "0x0",
     b |-> "0x3"],
    [name |-> "secp192r1",
     type |-> "weierstrass",
     size |-> 256,
     field |-> "0xfffffffffffffffffffffffffffffffeffffffffffffffff",
     generator |-> <<"0x188da80eb03090f67cbf20eb43a18800f4ff0afd82ff1012",
                    "0x7192b95ffc8da78631011ed6b24cdd573f977a11e794811">>,
     order |-> "0xffffffffffffffffffffffff99def836146bc9b1b4d22831",
     cofactor |-> 1,
     a |-> "0xfffffffffffffffffffffffffffffffefffffffffffffffc",
     b |-> "0x64210519e59c80e70fa7e9ab72243049feb8deecc146b9b1"],
    [name |-> "secp160k1",
     type |-> "weierstrass",
     size |-> 160,
     field |-> "0xfffffffffffffffffffffffffffffffeffffac73",
     generator |-> <<"0x3b4c382ce37aa192a4019e763036f4f5dd4d7ebb",
                    "0x938cf935318fdced6bc28286531733c3f03c4fee">>,
     order |-> "0x100000000000000000001b8fa16dfab9aca16b6b3",
     cofactor |-> 1,
     a |-> "0x0",
     b |-> "0x7"],
    [name |-> "secp160r1",
     type |-> "weierstrass",
     size |-> 160,
     field |-> "0xffffffffffffffffffffffffffffffff7fffffff",
     generator |-> <<"0x4a96b5688ef573284664698968c38bb913cbfc82",
                    "0x23a628553168947d59dcc912042351377ac5fb32">>,
     order |-> "0x100000000000000000001f4c8f927aed3ca752257",
     cofactor |-> 1,
     a |-> "0xffffffffffffffffffffffffffffffff7ffffffc",
     b |-> "0x1c97befc54bd7a8b65acf89f81d4d4adc565fa45"],
    [name |-> "secp160r2",
     type |-> "weierstrass",
     size |-> 160,
     field |-> "0xfffffffffffffffffffffffffffffffeffffac73",
     generator |-> <<"0x52dcb034293a117e1f4ff11b30f7199d3144ce6d",
                    "0xfeaffef2e331f296e071fa0df9982cfea7d43f2e">>,
     order |-> "0x100000000000000000000351ee786a818f3a1a16b",
     cofactor |-> 1,
     a |-> "0xfffffffffffffffffffffffffffffffeffffac70",
     b |-> "0xb4e134d3fb59eb8bab57274904664d5af50388ba"],
    [name |-> "Brainpool-p512t1",
     type |-> "weierstrass",
     size |-> 512,
     field |-> "0xAADD9DB8DBE9C48B3FD4E6AE33C9FC07CB308DB3B3C9D20ED6639CCA703308717D4D9B009BC66842AECDA12AE6A380E62881FF2F2D82C68528AA6056583A48F3",
     generator |-> <<"0x640ECE5C12788717B9C1BA06CBC2A6FEBA85842458C56DDE9DB1758D39C0313D82BA51735CDB3EA499AA77A7D6943A64F7A3F25FE26F06B51BAA2696FA9035DA",
                    "0x5B534BD595F5AF0FA2C892376C84ACE1BB4E3019B71634C01131159CAE03CEE9D9932184BEEF216BD71DF2DADF86A627306ECFF96DBB8BACE198B61E00F8B332">>,
     order |-> "0xAADD9DB8DBE9C48B3FD4E6AE33C9FC07CB308DB3B3C9D20ED6639CCA70330870553E5C414CA92619418661197FAC10471DB1D381085DDADDB58796829CA90069",
     cofactor |-> 1,
     a |-> "0xAADD9DB8DBE9C48B3FD4E6AE33C9FC07CB308DB3B3C9D20ED6639CCA703308717D4D9B009BC66842AECDA12AE6A380E62881FF2F2D82C68528AA6056583A48F0",
     b |-> "0x7CBBBCF9441CFAB76E1890E46884EAE321F70C0BCB4981527897504BEC3E36A62BCDFA2304976540F6450085F2DAE145C22553B465763689180EA2571867423E"],
    [name |-> "Brainpool-p512r1",
     type |-> "weierstrass",
     size |-> 512,
     field |-> "0xAADD9DB8DBE9C48B3FD4E6AE33C9FC07CB308DB3B3C9D20ED6639CCA703308717D4D9B009BC66842AECDA12AE6A380E62881FF2F2D82C68528AA6056583A48F3",
     generator |-> <<"0x81AEE4BDD82ED9645A21322E9C4C6A9385ED9F70B5D916C1B43B62EEF4D0098EFF3B1F78E2D0D48D50D1687B93B97D5F7C6D5047406A5E688B352209BCB9F822",
                    "0x7DDE385D566332ECC0EABFA9CF7822FDF209F70024A57B1AA000C55B881F8111B2DCDE494A5F485E5BCA4BD88A2763AED1CA2B2FA8F0540678CD1E0F3AD80892">>,
     order |-> "0xAADD9DB8DBE9C48B3FD4E6AE33C9FC07CB308DB3B3C9D20ED6639CCA70330870553E5C414CA92619418661197FAC10471DB1D381085DDADDB58796829CA90069",
     cofactor |-> 1,
     a |-> "0x7830A3318B603B89E2327145AC234CC594CBDD8D3DF91610A83441CAEA9863BC2DED5D5AA8253AA10A2EF1C98B9AC8B57F1117A72BF2C7B9E7C1AC4D77FC94CA",
     b |-> "0x3DF91610A83441CAEA9863BC2DED5D5AA8253AA10A2EF1C98B9AC8B57F1117A72BF2C7B9E7C1AC4D77FC94CADC083E67984050B75EBAE5DD2809BD638016F723"],
    [name |-> "Brainpool-p384t1",
     type |-> "weierstrass",
     size |-> 384,
     field |-> "0x8CB91E82A3386D280F5D6F7E50E641DF152F7109ED5456B412B1DA197FB71123ACD3A729901D1A71874700133107EC53",
     generator |-> <<"0x18DE98B02DB9A306F2AFCD7235F72A819B80AB12EBD653172476FECD462AABFFC4FF191B946A5F54D8D0AA2F418808CC",
                    "0x25AB056962D30651A114AFD2755AD336747F93475B7A1FCA3B88F2B6A208CCFE469408584DC2B2912675BF5B9E582928">>,
     order |-> "0x8CB91E82A3386D280F5D6F7E50E641DF152F7109ED5456B31F166E6CAC0425A7CF3AB6AF6B7FC3103B883202E9046565",
     cofactor |-> 1,
     a |-> "0x8CB91E82A3386D280F5D6F7E50E641DF152F7109ED5456B412B1DA197FB71123ACD3A729901D1A71874700133107EC50",
     b |-> "0x7F519EADA7BDA81BD826DBA647910F8C4B9346ED8CCDC64E4B1ABD11756DCE1D2074AA263B88805CED70355A33B471EE"],
    [name |-> "Brainpool-p384r1",
     type |-> "weierstrass",
     size |-> 384,
     field |-> "0x8CB91E82A3386D280F5D6F7E50E641DF152F7109ED5456B412B1DA197FB71123ACD3A729901D1A71874700133107EC53",
     generator |-> <<"0x1D1C64F068CF45FFA2A63A81B7C13F6B8847A3E77EF14FE3DB7FCAFE0CBD10E8E826E03436D646AAEF87B2E247D4AF1E",
                    "0x8ABE1D7520F9C2A45CB1EB8E95CFD55262B70B29FEEC5864E19C054FF99129280E4646217791811142820341263C5315">>,
     order |-> "0x8CB91E82A3386D280F5D6F7E50E641DF152F7109ED5456B31F166E6CAC0425A7CF3AB6AF6B7FC3103B883202E9046565",
     cofactor |-> 1,
     a |-> "0x7BC382C63D8C150C3C72080ACE05AFA0C2BEA28E4FB22787139165EFBA91F90F8AA5814A503AD4EB04A8C7DD22CE2826",
     b |-> "0x04A8C7DD22CE28268B39B55416F0447C2FB77DE107DCD2A62E880EA53EEB62D57CB4390295DBC9943AB78696FA504C11"],
    [name |-> "Brainpool-p320t1",
     type |-> "weierstrass",
     size |-> 320,
     field |-> "0xD35E472036BC4FB7E13C785ED201E065F98FCFA6F6F40DEF4F92B9EC7893EC28FCD412B1F1B32E27",
     generator |-> <<"0x925BE9FB01AFC6FB4D3E7D4990010F813408AB106C4F09CB7EE07868CC136FFF3357F624A21BED52",
                    "0x63BA3A7A27483EBF6671DBEF7ABB30EBEE084E58A0B077AD42A5A0989D1EE71B1B9BC0455FB0D2C3">>,
     order |-> "0xD35E472036BC4FB7E13C785ED201E065F98FCFA5B68F12A32D482EC7EE8658E98691555B44C59311",
     cofactor |-> 1,
     a |-> "0xD35E472036BC4FB7E13C785ED201E065F98FCFA6F6F40DEF4F92B9EC7893EC28FCD412B1F1B32E24",
     b |-> "0xA7F561E038EB1ED560B3D147DB782013064C19F27ED27C6780AAF77FB8A547CEB5B4FEF422340353"],
    [name |-> "Brainpool-p320r1",
     type |-> "weierstrass",
     size |-> 320,
     field |-> "0xD35E472036BC4FB7E13C785ED201E065F98FCFA6F6F40DEF4F92B9EC7893EC28FCD412B1F1B32E27",
     generator |-> <<"0x43BD7E9AFB53D8B85289BCC48EE5BFE6F20137D10A087EB6E7871E2A10A599C710AF8D0D39E20611",
                    "0x14FDD05545EC1CC8AB4093247F77275E0743FFED117182EAA9C77877AAAC6AC7D35245D1692E8EE1">>,
     order |-> "0xD35E472036BC4FB7E13C785ED201E065F98FCFA5B68F12A32D482EC7EE8658E98691555B44C59311",
     cofactor |-> 1,
     a |-> "0x3EE30B568FBAB0F883CCEBD46D3F3BB8A2A73513F5EB79DA66190EB085FFA9F492F375A97D860EB4",
     b |-> "0x520883949DFDBC42D3AD198640688A6FE13F41349554B49ACC31DCCD884539816F5EB4AC8FB1F1A6"],
    [name |-> "Brainpool-p256r1",
     type |-> "weierstrass",
     size |-> 256,
     field |-> "0xa9fb57dba1eea9bc3e660a909d838d726e3bf623d52620282013481d1f6e5377",
     generator |-> <<"0x8bd2aeb9cb7e57cb2c4b482ffc81b7afb9de27e1e3bd23c23a4453bd9ace3262",
                    "0x547ef835c3dac4fd97f8461a14611dc9c27745132ded8e545c1d54c72f046997">>,
     order |-> "0xa9fb57dba1eea9bc3e660a909d838d718c397aa3b561a6f7901e0e82974856a7",
     cofactor |-> 1,
     a |-> "0x7d5a0975fc2c3057eef67530417affe7fb8055c126dc5c6ce94a4b44f330b5d9",
     b |-> "0x26dc5c6ce94a4b44f330b5d9bbd77cbf958416295cf7e1ce6bccdc18ff8c07b6"],
    [name |-> "Brainpool-p256t1",
     type |-> "weierstrass",
     size |-> 256,
     field |-> "0xa9fb57dba1eea9bc3e660a909d838d726e3bf623d52620282013481d1f6e5377",
     generator |-> <<"0xa3e8eb3cc1cfe7b7732213b23a656149afa142c47aafbc2b79a191562e1305f4",
                    "0x2d996c823439c56d7f7b22e14644417e69bcb6de39d027001dabe8f35b25c9be">>,
     order |-> "0xa9fb57dba1eea9bc3e660a909d838d718c397aa3b561a6f7901e0e82974856a7",
     cofactor |-> 1,
     a |-> "0xa9fb57dba1eea9bc3e660a909d838d726e3bf623d52620282013481d1f6e5374",
     b |-> "0x662c61c430d84ea4fe66a7733d0b76b7bf93ebc4af2f49256ae58101fee92b04"],
    [name |-> "Brainpool-p224r1",
     type |-> "weierstrass",
     size |-> 224,
     field |-> "0xD7C134AA264366862A18302575D1D787B09F075797DA89F57EC8C0FF",
     generator |-> <<"0x0D9029AD2C7E5CF4340823B2A87DC68C9E4CE3174C1E6EFDEE12C07D",
                    "0x58AA56F772C0726F24C6B89E4ECDAC24354B9E99CAA3F6D3761402CD">>,
     order |-> "0xD7C134AA264366862A18302575D0FB98D116BC4B6DDEBCA3A5A7939F",
     cofactor |-> 1,
     a |-> "0x68A5E62CA9CE6C1C299803A6C1530B514E182AD8B0042A59CAD29F43",
     b |-> "0x2580F63CCFE44138870713B1A92369E33E2135D266DBB372386C400B"],
    [name |-> "Brainpool-p224t1",
     type |-> "weierstrass",
     size |-> 192,
     a |-> "0xD7C134AA264366862A18302575D1D787B09F075797DA89F57EC8C0FC",
     b |-> "0x4B337D934104CD7BEF271BF60CED1ED20DA14C08B3BB64F18A60888D",
     field |-> "0x2DF271E14427A346910CF7A2E6CFA7B3F484E5C2CCE1C8B730E28B3F",
     generator |-> <<"0x6AB1E344CE25FF3896424E7FFE14762ECB49F8928AC0C76029B4D580",
                    "0x0374E9F5143E568CD23F3F4D7C0D4B1E41C8CC0D1C6ABD5F1A46DB4C">>,
     order |-> "0xD7C134AA264366862A18302575D0FB98D116BC4B6DDEBCA3A5A7939F",
     cofactor |-> 1],
    [name |-> "Brainpool-p192r1",
     type |-> "weierstrass",
     size |-> 192,
     field |-> "0xc302f41d932a36cda7a3463093d18db78fce476de1a86297",
     generator |-> <<"0xc0a0647eaab6a48753b033c56cb0f0900a2f5c4853375fd6",
                    "0x14b690866abd5bb88b5f4828c1490002e6773fa2fa299b8f">>,
     order |-> "0xc302f41d932a36cda7a3462f9e9e916b5be8f1029ac4acc1",
     cofactor |-> 1,
     a |-> "0x6a91174076b1e0e19c39c031fe8685c1cae040e5c69a28ef",
     b |-> "0x469a28ef7c28cca3dc721d044f4496bcca7ef4146fbf25c9"],
    [name |-> "Brainpool-p192t1",
     type |-> "weierstrass",
     size |-> 192,
     field |-> "0xc302f41d932a36cda7a3463093d18db78fce476de1a86297",
     generator |-> <<"0x3ae9e58c82f63c30282e1fe7bbf43fa72c446af6f4618129",
                    "0x97e2c5667c2223a902ab5ca449d0084b7e5b3de7ccc01c9">>,
     order |-> "0xc302f41d932a36cda7a3462f9e9e916b5be8f1029ac4acc1",
     cofactor |-> 1,
     a |-> "0xc302f41d932a36cda7a3463093d18db78fce476de1a86294",
     b |-> "0x13d56ffaec78681e68f9deb43b35bec2fb68542e27897b79"],
    [name |-> "Brainpool-p160r1",
     type |-> "weierstrass",
     size |-> 160,
     field |-> "0xe95e4a5f737059dc60dfc7ad95b3d8139515620f",
     generator |-> <<"0xbed5af16ea3f6a4f62938c4631eb5af7bdbcdbc3",
                    "0x1667cb477a1a8ec338f94741669c976316da6321">>,
     order |-> "0xe95e4a5f737059dc60df5991d45029409e60fc09",
     cofactor |-> 1,
     a |-> "0x340e7be2a280eb74e2be61bada745d97e8f7c300",
     b |-> "0x1e589a8595423412134faa2dbdec95c8d8675e58"],
    [name |-> "Brainpool-p160t1",
     type |-> "weierstrass",
     size |-> 160,
     field |-> "0xe95e4a5f737059dc60dfc7ad95b3d8139515620f",
     generator |-> <<"0xb199b13b9b34efc1397e64baeb05acc265ff2378",
                    "0xadd6718b7c7c1961f0991b842443772152c9e0ad">>,
     order |-> "0xe95e4a5f737059dc60df5991d45029409e60fc09",
     cofactor |-> 1,
     a |-> "0xe95e4a5f737059dc60dfc7ad95b3d8139515620c",
     b |-> "0x7a556b6dae535b7b51ed2c4d7daa7a0b5c55f380"],
    [name |-> "NIST-P256",
     type |-> "weierstrass",
     size |-> 256,
     field |-> "0xffffffff00000001000000000000000000000000ffffffffffffffffffffffff",
     generator |-> <<"0x6b17d1f2e12c4247f8bce6e563a440f277037d812deb33a0f4a13945d898c296",
                    "0x4fe342e2fe1a7f9b8ee7eb4a7c0f9e162bce33576b315ececbb6406837bf51f5">>,
     order |-> "0xffffffff00000000ffffffffffffffffbce6faada7179e84f3b9cac2fc632551",
     cofactor |-> 1,
     a |-> "0xffffffff00000001000000000000000000000000fffffffffffffffffffffffc",
     b |-> "0x5ac635d8aa3a93e7b3ebbd55769886bc651d06b0cc53b0f63bce3c3e27d2604b"],
    [name |-> "NIST-P224",
     type |-> "weierstrass",
     size |-> 224,
     field |-> "0xFFFFFFFFFFFFFFFFFFFFFFFFFFFFFFFF000000000000000000000001",
     generator |-> <<"0xB70E0CBD6BB4BF7F321390B94A03C1D356C21122343280D6115C1D21",
                    "0xBD376388B5F723FB4C22DFE6CD4375A05A07476444D5819985007E34">>,
     order |-> "0xFFFFFFFFFFFFFFFFFFFFFFFFFFFF16A2E0B8F03E13DD29455C5C2A3D",
     cofactor |-> 1,
     a |-> "0xFFFFFFFFFFFFFFFFFFFFFFFFFFFFFFFEFFFFFFFFFFFFFFFFFFFFFFFE",
     b |-> "0xB4050A850C04B3ABF54132565044B0B7D7BFD8BA270B39432355FFB4"],
    [name |-> "NIST-P192",
     type |-> "weierstrass",
     size |-> 192,
     field |-> "0xfffffffffffffffffffffffffffffffeffffffffffffffff",
     generator |-> <<"0x188da80eb03090f67cbf20eb43a18800f4ff0afd82ff1012",
                    "0x07192b95ffc8da78631011ed6b24cdd573f977a11e794811">>,
     order |-> "0xffffffffffffffffffffffff99def836146bc9b1b4d22831",
     cofactor |-> 1,
     a |-> "0xfffffffffffffffffffffffffffffffefffffffffffffffc",
     b |-> "0x64210519e59c80e70fa7e9ab72243049feb8deecc146b9b1"],
    [name |-> "Ed448",
     type |-> "twistededward",
     size |-> 448,
     field |-> "0xfffffffffffffffffffffffffffffffffffffffffffffffffffffffeffffffffffffffffffffffffffffffffffffffffffffffffffffffff",
     generator |-> <<"0x4f1970c66bed0ded221d15a622bf36da9e146570470f1767ea6de324a3d3a46412ae1af72ab66511433b80e18b00938e2626a82bc70cc05e",
                    "0x693f46716eb6bc248876203756c9c7624bea73736ca3984087789c1e05a0c2d73ad3ff1ce67c39c4fdbd132c4ed7c8ad9808795bf230fa14">>,
     order |-> "0x3fffffffffffffffffffffffffffffffffffffffffffffffffffffff7cca23e9c44edb49aed63690216cc2728dc58f552378c292ab5844f3",
     cofactor |-> 4,
     d |-> "0xfffffffffffffffffffffffffffffffffffffffffffffffffffffffeffffffffffffffffffffffffffffffffffffffffffffffffffff6756",
     a |-> "1"],
    [name |-> "Ed25519",
     type |-> "twistededward",
     size |-> 256,
     field |-> "0x7fffffffffffffffffffffffffffffffffffffffffffffffffffffffffffffed",
     generator |-> <<"15112221349535400772501151409588531511454012693041857206046113283949847762202",
                    "46316835694926478169428394003475163141307993866256225615783033603165251855960">>,
     order |-> "0x1000000000000000000000000000000014DEF9DEA2F79CD65812631A5CF5D3ED",
     cofactor |-> 8,
     d |-> "0x52036cee2b6ffe738cc740797779e89800700a4d4141d8ab75eb4dca135978a3",
     a |-> "-1"],
    [name |-> "Curve448",
     type |-> "montgomery",
     size |-> 448,
     field |-> "0xfffffffffffffffffffffffffffffffffffffffffffffffffffffffeffffffffffffffffffffffffffffffffffffffffffffffffffffffff",
     generator |-> <<"5",
                    "0x7d235d1295f5b1f66c98ab6e58326fcecbae5d34f55545d060f75dc28df3f6edb8027e2346430d211312c4b150677af76fd7223d457b5b1a">>,
     order |-> "0x3fffffffffffffffffffffffffffffffffffffffffffffffffffffff7cca23e9c44edb49aed63690216cc2728dc58f552378c292ab5844f3",
     cofactor |-> 4,
     b |-> "1",
     a |-> "0x262a6"],
    [name |-> "Curve25519",
     type |-> "montgomery",
     size |-> 256,
     field |-> "0x7fffffffffffffffffffffffffffffffffffffffffffffffffffffffffffffed",
     generator |-> <<"9",
                    "43114425171068552920764898935933967039370386198203806730763910166200978582548">>,
     order |-> "0x1000000000000000000000000000000014DEF9DEA2F79CD65812631A5CF5D3ED",
     cofactor |-> 8,
     b |-> "1",
     a |-> "486662"]
>>

\* the literals of the table
TableLiterals ==
    UNION {{curves_literal[i].field, curves_literal[i].order, curves_literal[i].a,
            curves_literal[i].generator[1], curves_literal[i].generator[2],
            IF "d" \in DOMAIN curves_literal[i] THEN curves_literal[i].d
            ELSE curves_literal[i].b} : i \in DOMAIN curves_literal}

\* their magnitudes, parsed once
TableMagnitudes == [s \in TableLiterals |-> LitParse(s)]

\* |value| of a literal
LitMag(s) == IF s \in TableLiterals THEN TableMagnitudes[s] ELSE LitParse(s)

\* Python's % on a negative left operand: the result is in 0..q-1
SignedMod(neg, m, q) == IF neg /\ m # <<>> THEN BigSub(q, m) ELSE m

\* v % q for a literal v
LitMod(s, q) == SignedMod(LitNeg(s), BigMod(LitMag(s), q), q)

(***************************************************************************)
(* 4. curves.py: the registry                                              *)
(*                                                                         *)
(* A Curve object is [class, ref, _domain] (and a24 on a Montgomery        *)
(* curve); ref is its identity, the index at which the heap holds it.  A   *)
(* Point is [_x, _y, _curve]: _x and _y are None while __init__ has not    *)
(* assigned the slot, _curve is the ref of its curve.  The registry's      *)
(* ints stay literals; the operators on them carry the suffix _lit.        *)
(***************************************************************************)
WEIERSTRASS == "weierstrass"
TWISTEDEDWARD == "twistededward"
MONTGOMERY == "montgomery"

\* WeierstrassCurve.is_on_curve on residues: y^2 = x^3 + a*x + b
WeierstrassEquation(q, a, b, x, y) ==
    BigMulMod(y, y, q)
        = BigAddMod(BigAddMod(BigMulMod(BigMulMod(x, x, q), x, q),
                              BigMulMod(a, x, q), q), b, q)

\* TwistedEdwardCurve.is_on_curve on residues: a*x^2 + y^2 = 1 + d*x^2*y^2
TwistedEdwardSquares(q, a, d, sqx, sqy) ==
    BigAddMod(BigMulMod(a, sqx, q), sqy, q)
        = BigAddMod(BigMod(<<1>>, q), BigMulMod(BigMulMod(d, sqx, q), sqy, q), q)

TwistedEdwardEquation(q, a, d, x, y) ==
    TwistedEdwardSquares(q, a, d, BigMulMod(x, x, q), BigMulMod(y, y, q))

\* MontgomeryCurve.is_on_curve on residues: b*y^2 = x^3 + a*x^2 + x when
\* P.y is truthy, else Euler's criterion on the right-hand side
MontgomerySides(p, b, y, right) ==
    IF y # <<>> THEN BigMulMod(BigMulMod(y, y, p), b, p) = right
    ELSE BigEuler(right, p) = BigMod(<<1>>, p)

MontgomeryEquation(p, a, b, x, y) ==
    MontgomerySides(p, b, y,
        BigAddMod(BigAddMod(BigMulMod(BigMulMod(x, x, p), x, p),
                            BigMulMod(BigMulMod(x, x, p), a, p), p), x, p))

\* the curve equation of type t on literals, modulo the magnitude q
EquationMod(t, q, a, b, x, y) ==
    CASE t = WEIERSTRASS ->
           WeierstrassEquation(q, LitMod(a, q), LitMod(b, q), LitMod(x, q), LitMod(y, q))
      [] t = TWISTEDEDWARD ->
           TwistedEdwardEquation(q, LitMod(a, q), LitMod(b, q), LitMod(x, q), LitMod(y, q))
      [] t = MONTGOMERY ->
           MontgomeryEquation(q, LitMod(a, q), LitMod(b, q), LitMod(x, q), LitMag(y))

\* the curve equations of the three is_on_curve methods, on literals; k is
\* <<type, field, a, b or d, x, y>>
CurveEquation(k) == EquationMod(k[1], LitMag(k[2]), k[3], k[4], k[5], k[6])

EquationKey(cp) ==
    <<cp.type, cp.field, cp.a, IF cp.type = TWISTEDEDWARD THEN cp.d ELSE cp.b,
      cp.generator[1], cp.generator[2]>>

\* the equations at the generators of the literal table, evaluated once
GeneratorEquation ==
    [k \in {EquationKey(curves_literal[i]) : i \in DOMAIN curves_literal} |->
        CurveEquation(k)]

EquationAt(k) ==
    IF k \in DOMAIN GeneratorEquation THEN GeneratorEquation[k] ELSE CurveEquation(k)

\* curve.is_on_curve(P): P.x or P.y on an unassigned slot is an AttributeError
is_on_curve_lit(curve, P) ==
    IF P._x = None \/ P._y = None THEN Raise("AttributeError")
    ELSE Ret(EquationAt(<<curve._domain.type, curve._domain.field, curve._domain.a,
                          IF curve.class = "TwistedEdwardCurve" THEN curve._domain.d
                          ELSE curve._domain.b,
                          P._x[1], P._y[1]>>))

\* Point.__init__ from `if check and not curve.is_on_curve(self)` on
PointValidated(on, P) ==
    IF on.raised # "" THEN on
    ELSE IF ~on.val THEN Raise("ECPyException")
    ELSE Ret(P)

\* Point.__init__ once the slots are assigned
PointAssigned(P, curve, check) ==
    IF check /\ P._x # None /\ P._y # None
    THEN PointValidated(is_on_curve_lit(curve, P), P)
    ELSE Ret(P)

\* Point(x, y, curve, check)
Point_lit(x, y, curve, check) ==
    PointAssigned([_x |-> IF LitMag(x) # <<>> THEN Some(x) ELSE None,
                   _y |-> IF LitMag(y) # <<>> THEN Some(y) ELSE None,
                   _curve |-> curve.ref], curve, check)

\* Curve._set, the assignment of self._domain['generator']
SetGenerator(self, P) ==
    IF P.raised # "" THEN [raised |-> P.raised, self |-> self]
    ELSE [raised |-> "", self |-> [self EXCEPT !._domain.generator = P.val]]

\* Curve._set after the loop over keys
SetPoint(self) ==
    IF "generator" \notin DOMAIN self._domain
    THEN [raised |-> "KeyError", self |-> self]
    ELSE SetGenerator(self, Point_lit(self._domain.generator[1],
                                      self._domain.generator[2], self, TRUE))

\* Curve._set(self, params, keys): the outcome and self as the call leaves
\* it; params is only read.  str() of the name, a str, is the name.
_set(self, params, keys) ==
    IF ~(keys \subseteq DOMAIN params)
    THEN [raised |-> "KeyError", self |-> self]
    ELSE SetPoint([self EXCEPT !._domain =
                      [k \in (DOMAIN self._domain) \cup keys |->
                          IF k \in keys THEN params[k] ELSE self._domain[k]]])

WeierstrassCurve(domain, ref) ==
    _set([class |-> "WeierstrassCurve", ref |-> ref, _domain |-> <<>>], domain,
         {"name", "type", "size", "a", "b", "field", "generator", "order", "cofactor"})

TwistedEdwardCurve(domain, ref) ==
    _set([class |-> "TwistedEdwardCurve", ref |-> ref, _domain |-> <<>>], domain,
         {"name", "type", "size", "a", "d", "field", "generator", "order"})

\* (a + 2) // 4 for a of sign neg and magnitude m: [neg, mag]
FloorQuarter(neg, m) ==
    IF ~neg THEN [neg |-> FALSE, mag |-> BigDivSmall(BigAdd(m, <<2>>), 4)]
    ELSE IF ~BigLess(<<2>>, m) THEN [neg |-> FALSE, mag |-> <<>>]
    ELSE [neg |-> TRUE, mag |-> BigDivSmall(BigAdd(BigSub(m, <<2>>), <<3>>), 4)]

\* (self.a + 2) // 4 on a literal
a24_lit(a) == FloorQuarter(LitNeg(a), LitMag(a))

\* MontgomeryCurve.__init__ after _set
SetA24(r) ==
    IF r.raised # "" THEN r
    ELSE [r EXCEPT !.self = [class |-> r.self.class, ref |-> r.self.ref,
                             _domain |-> r.self._domain,
                             a24 |-> a24_lit(r.self._domain.a)]]

MontgomeryCurve(domain, ref) ==
    SetA24(_set([class |-> "MontgomeryCurve", ref |-> ref, _domain |-> <<>>], domain,
                {"name", "type", "size", "a", "b", "field", "generator", "order"}))

\* the indices of the entries called name: [c for c in curves if c['name']==name]
Lookup(table, name) == {i \in DOMAIN table : table[i].name = name}

\* l[0]
First(l) == CHOOSE j \in l : \A m \in l : j <= m

\* what get_curve returns of a constructor's outcome: the outcome and the
\* object constructed (None if none)
Built(r, ref) ==
    IF r.raised # "" THEN [out |-> Raise(r.raised), obj |-> None]
    ELSE [out |-> Ret(Some(ref)), obj |-> Some(r.self)]

\* get_curve's dispatch on cp['type'], allocating at ref
NewCurve(cp, ref) ==
    CASE cp.type = WEIERSTRASS -> Built(WeierstrassCurve(cp, ref), ref)
      [] cp.type = TWISTEDEDWARD -> Built(TwistedEdwardCurve(cp, ref), ref)
      [] cp.type = MONTGOMERY -> Built(MontgomeryCurve(cp, ref), ref)
      [] OTHER -> [out |-> Ret(None), obj |-> None]

\* the objects called name
Named(objects, name) == {r \in DOMAIN objects : objects[r]._domain.name = name}

\* Mutant of get_curve: the registry keeps one object per name and hands it
\* out again.
get_curve_singleton(table, name, objects) ==
    IF Lookup(table, name) = {} THEN [out |-> Ret(None), obj |-> None]
    ELSE IF Named(objects, name) # {}
    THEN [out |-> Ret(Some(First(Named(objects, name)))), obj |-> None]
    ELSE NewCurve(table[First(Lookup(table, name))], Len(objects) + 1)

\* Curve.get_curve(name) on the table, with the Curve objects that exist
get_curve(table, name, objects) ==
    IF Lookup(table, name) = {} THEN [out |-> Ret(None), obj |-> None]
    ELSE NewCurve(table[First(Lookup(table, name))], Len(objects) + 1)

\* Curve.get_curve_names()
get_curve_names(table) == [i \in DOMAIN table |-> table[i].name]

(***************************************************************************)
(* Registry: inputs and actions                                            *)
(***************************************************************************)
MaxLookups == 2

RegisteredNames == {curves_literal[i].name : i \in DOMAIN curves_literal}

\* every registered name, and two names the table does not hold
LookupNames == RegisteredNames \cup {"secp256k2", ""}

\* c = Curve.get_curve(name)
CallGetCurve ==
    /\ Len(heap) < MaxLookups
    /\ \E name \in LookupNames :
          \E r \in {get_curve(curves, name, heap)} :
              /\ heap' = IF r.obj = None THEN heap ELSE Append(heap, r.obj[1])
              /\ args' = [name |-> name]
              /\ ret' = r.out
    /\ op' = "get_curve"
    /\ pc' = "done"
    /\ UNCHANGED <<curves, loc>>

\* Curve.get_curve_names()
CallGetCurveNames ==
    /\ op # "get_curve_names"
    /\ op' = "get_curve_names"
    /\ pc' = "done"
    /\ args' = None
    /\ ret' = Ret(get_curve_names(curves))
    /\ UNCHANGED <<curves, heap, loc>>

\* c.is_on_curve(c.generator) on a curve a lookup returned
CallIsOnCurve ==
    /\ \E ref \in DOMAIN heap :
          /\ args' = [curve |-> ref]
          /\ ret' = is_on_curve_lit(heap[ref], heap[ref]._domain.generator)
    /\ op' = "is_on_curve"
    /\ pc' = "done"
    /\ UNCHANGED <<curves, heap, loc>>

InitRegistry == InitIdle /\ curves = curves_literal /\ heap = <<>>

NextRegistry == CallGetCurve \/ CallGetCurveNames \/ CallIsOnCurve

SpecRegistry == InitRegistry /\ [][NextRegistry]_vars

(***************************************************************************)
(* C1: for every name of the table, get_curve(name) returns, without       *)
(* raising, a curve object whose name is that name and whose class is the  *)
(* one the entry's type selects; for every other name it returns None      *)
(* without raising.                                                        *)
(***************************************************************************)
ClassOfType(t) ==
    CASE t = WEIERSTRASS -> "WeierstrassCurve"
      [] t = TWISTEDEDWARD -> "TwistedEdwardCurve"
      [] t = MONTGOMERY -> "MontgomeryCurve"

TypeOfName(name) ==
    curves_literal[CHOOSE i \in DOMAIN curves_literal : curves_literal[i].name = name].type

C1_GetCurveReturns ==
    op = "get_curve" =>
        /\ ret.raised = ""
        /\ IF args.name \in RegisteredNames
           THEN /\ ret.val # None
                /\ heap[ret.val[1]]._domain.name = args.name
                /\ heap[ret.val[1]].class = ClassOfType(TypeOfName(args.name))
           ELSE ret.val = None

(***************************************************************************)
(* C2: the generator of every entry of the table satisfies the entry's     *)
(* curve equation modulo the entry's field, so the validated Point that    *)
(* curve construction builds from it never raises 'Point not on curve'.    *)
(***************************************************************************)
C2_GeneratorsOnCurve ==
    /\ \A i \in DOMAIN curves : GeneratorEquation[EquationKey(curves[i])]
    /\ op = "get_curve" => ret.raised # "ECPyException"

(***************************************************************************)
(* C3: get_curve, get_curve_names and point operations on the returned     *)
(* curves leave the table as the source wrote it; the objects two lookups  *)
(* of one name return are distinct and have equal domain parameters;       *)
(* get_curve_names returns every name of the table, in table order.        *)
(***************************************************************************)
\* a curve object without its identity
Parameters(c) == [c EXCEPT !.ref = 0, !._domain.generator._curve = 0]

C3_TableUntouched == curves = curves_literal

C3_LookupsIndependent ==
    /\ \A i \in DOMAIN heap :
          heap[i].ref = i /\ heap[i]._domain.generator._curve = i
    /\ \A i, j \in DOMAIN heap :
          heap[i]._domain.name = heap[j]._domain.name
              => Parameters(heap[i]) = Parameters(heap[j])

C3_NamesInTableOrder ==
    op = "get_curve_names" =>
        /\ ret.raised = ""
        /\ Len(ret.val) = Len(curves_literal)
        /\ \A i \in DOMAIN curves_literal : ret.val[i] = curves_literal[i].name

\* the object a lookup returns is one no earlier lookup returned
C3_FreshObject ==
    (op' = "get_curve" /\ ret'.raised = "" /\ ret'.val # None)
        => /\ ret'.val[1] \notin DOMAIN heap
           /\ ret'.val[1] \in DOMAIN heap'
           /\ \A i \in DOMAIN heap : heap'[i] = heap[i]

C3_RegistryFrame ==
    /\ [](C3_TableUntouched /\ C3_LookupsIndependent /\ C3_NamesInTableOrder)
    /\ [][C3_FreshObject]_vars

\* a second lookup of a name has returned a second object
C3_Witness ==
    /\ op = "get_curve" /\ args.name = "Curve25519"
    /\ ret = Ret(Some(2))
    /\ heap[1]._domain.name = "Curve25519" /\ heap[2]._domain.name = "Curve25519"
    /\ heap[2]._domain.generator._x = Some("9")
    /\ curves[33].generator[1] = "9"

(***************************************************************************)
(* 5. curves.py: Point and the arithmetic of the three families            *)
(*                                                                         *)
(* The operators of this section work on ints that fit TLC's integers:     *)
(* curves over small fields with the shape of the registered ones.         *)
(***************************************************************************)
\* pow(b, e, m) for e >= 0
RECURSIVE PowRec(_, _, _)
PowRec(b, e, m) ==
    IF e = 0 THEN 1 % m
    ELSE IF e % 2 = 1 THEN (b * PowRec(b, e - 1, m)) % m
    ELSE PowRec((b * b) % m, e \div 2, m)

pow(b, e, m) == PowRec(b % m, e, m)

\* bin(k)[2:] for k >= 0, as a sequence of 0 and 1
RECURSIVE bin(_)
bin(k) == IF k < 2 THEN <<k>> ELSE Append(bin(k \div 2), k % 2)

\* the equation of the curve's family at the ints x, y (is_on_curve)
Equation(curve, x, y) ==
    CASE curve.class = "WeierstrassCurve" ->
           (y * y) % curve._domain.field
             = (((x * x * x) % curve._domain.field)
                + curve._domain.a * x + curve._domain.b) % curve._domain.field
      [] curve.class = "TwistedEdwardCurve" ->
           (curve._domain.a * ((x * x) % curve._domain.field)
              + ((y * y) % curve._domain.field)) % curve._domain.field
             = (1 + curve._domain.d * ((x * x) % curve._domain.field)
                     * ((y * y) % curve._domain.field)) % curve._domain.field
      [] curve.class = "MontgomeryCurve" ->
           (curve._domain.b * y * y) % curve._domain.field
             = (x * x * x + curve._domain.a * x * x + x) % curve._domain.field

\* curve.is_on_curve(P); P.x and P.y raise AttributeError on a slot that
\* __init__ left unassigned.  A Point has its assigned slots truthy, so
\* MontgomeryCurve's `if P.y` branch is the one taken.
is_on_curve(curve, P) ==
    IF P._x = None \/ P._y = None THEN Raise("AttributeError")
    ELSE Ret(Equation(curve, P._x[1], P._y[1]))

\* None passed where a curve is expected
NoCurve == [class |-> "NoneType", ref |-> 0, _domain |-> None]

\* Point(x, y, curve, check) for x, y an int or None: `if x:` and `if y:`
\* leave the slot of a zero or absent coordinate unassigned, and
\* `if not x or not y: check = False`
Point(x, y, curve, check) ==
    LET P == [_x |-> IF Truthy(x) THEN x ELSE None,
              _y |-> IF Truthy(y) THEN y ELSE None,
              _curve |-> curve.ref]
    IN  IF check /\ Truthy(x) /\ Truthy(y)
        THEN IF curve.class = "NoneType" THEN Raise("AttributeError")
             ELSE PointValidated(is_on_curve(curve, P), P)
        ELSE Ret(P)

\* Point.__eq__ between Points of the curves in objects; `_curve.name` of
\* a Point built with None for its curve raises, and the name of a curve
\* is a str (Curve._set), never None
__eq__(P, Q, objects) ==
    IF P._curve = NoCurve.ref \/ Q._curve = NoCurve.ref THEN Raise("AttributeError")
    ELSE IF objects[P._curve]._domain.name # objects[Q._curve]._domain.name
    THEN Ret(FALSE)
    ELSE IF P._x = None \/ Q._x = None THEN Raise("AttributeError")
    ELSE IF P._x # Q._x THEN Ret(FALSE)
    ELSE IF P._y = None \/ Q._y = None THEN Raise("AttributeError")
    ELSE Ret(P._y = Q._y)

(***************************************************************************)
(* WeierstrassCurve                                                        *)
(***************************************************************************)
_aff2jac(x, y, q) == <<x, y, 1>>

_jac2aff(x, y, z, q) ==
    LET invz == pow(z, q - 2, q)
        sqinvz == (invz * invz) % q
    IN  <<(x * sqinvz) % q, (y * sqinvz * invz) % q>>

_dbl_jac(X1, Y1, Z1, q, a) ==
    LET XX == (X1 * X1) % q
        YY == (Y1 * Y1) % q
        YYYY == (YY * YY) % q
        ZZ == (Z1 * Z1) % q
        S == (2 * ((X1 + YY) * (X1 + YY) - XX - YYYY)) % q
        M == (3 * XX + a * ZZ * ZZ) % q
        T == (M * M - 2 * S) % q
    IN  <<T % q, (M * (S - T) - 8 * YYYY) % q,
          ((Y1 + Z1) * (Y1 + Z1) - YY - ZZ) % q>>

_add_jac(X1, Y1, Z1, X2, Y2, Z2, q) ==
    LET Z1Z1 == (Z1 * Z1) % q
        Z2Z2 == (Z2 * Z2) % q
        U1 == (X1 * Z2Z2) % q
        U2 == (X2 * Z1Z1) % q
        S1 == (Y1 * Z2 * Z2Z2) % q
        S2 == (Y2 * Z1 * Z1Z1) % q
        H == (U2 - U1) % q
        I == ((2 * H) * (2 * H)) % q
        J == (H * I) % q
        r == (2 * (S2 - S1)) % q
        V == (U1 * I) % q
        X3 == (r * r - J - 2 * V) % q
    IN  <<X3, (r * (V - X3) - 2 * S1 * J) % q,
          (((Z1 + Z2) * (Z1 + Z2) - Z1Z1 - Z2Z2) * H) % q>>

(***************************************************************************)
(* TwistedEdwardCurve                                                      *)
(***************************************************************************)
_aff2ext(x, y, q) == <<(x * 1) % q, (y * 1) % q, 1, (x * y * 1) % q>>

_ext2aff(x, y, z, xy, q) ==
    LET invz == pow(z, q - 2, q)
    IN  <<(x * invz) % q, (y * invz) % q>>

_dbl_ext(X1, Y1, Z1, XY1, q, a) ==
    LET A == (X1 * X1) % q
        B == (Y1 * Y1) % q
        C == (2 * Z1 * Z1) % q
        D == (a * A) % q
        E == ((X1 + Y1) * (X1 + Y1) - A - B) % q
        G == (D + B) % q
        F == (G - C) % q
        H == (D - B) % q
    IN  <<(E * F) % q, (G * H) % q, (F * G) % q, (E * H) % q>>

_add_ext(X1, Y1, Z1, XY1, X2, Y2, Z2, XY2, q, a) ==
    LET A == (X1 * X2) % q
        B == (Y1 * Y2) % q
        C == (Z1 * XY2) % q
        D == (XY1 * Z2) % q
        E == (D + C) % q
        t0 == (X1 - Y1) % q
        t1 == (X2 + Y2) % q
        t2 == (t0 * t1) % q
        t3 == (t2 + B) % q
        F == (t3 - A) % q
        t4 == (a * A) % q
        G == (B + t4) % q
        H == (D - C) % q
    IN  <<(E * F) % q, (G * H) % q, (F * G) % q, (E * H) % q>>

(***************************************************************************)
(* add_point and mul_point of the two families.  A projective point is     *)
(* <<X, Y, Z>> (Jacobian) on a Weierstrass curve and <<X, Y, Z, T>>        *)
(* (extended) on a twisted Edwards curve.                                  *)
(***************************************************************************)
\* _aff2jac / _aff2ext of P.x, P.y
Projective(curve, P) ==
    IF curve.class = "WeierstrassCurve"
    THEN _aff2jac(P._x[1], P._y[1], curve._domain.field)
    ELSE _aff2ext(P._x[1], P._y[1], curve._domain.field)

\* self._dbl_jac / self._dbl_ext
Double(curve, R) ==
    IF curve.class = "WeierstrassCurve"
    THEN _dbl_jac(R[1], R[2], R[3], curve._domain.field, curve._domain.a)
    ELSE _dbl_ext(R[1], R[2], R[3], R[4], curve._domain.field, curve._domain.a)

\* self._add_jac / self._add_ext
Sum(curve, R, S) ==
    IF curve.class = "WeierstrassCurve"
    THEN _add_jac(R[1], R[2], R[3], S[1], S[2], S[3], curve._domain.field)
    ELSE _add_ext(R[1], R[2], R[3], R[4], S[1], S[2], S[3], S[4],
                  curve._domain.field, curve._domain.a)

\* _jac2aff / _ext2aff
Affine(curve, R) ==
    IF curve.class = "WeierstrassCurve"
    THEN _jac2aff(R[1], R[2], R[3], curve._domain.field)
    ELSE _ext2aff(R[1], R[2], R[3], R[4], curve._domain.field)

\* Point(x, y, self) of the affine pair xy
PointOf(xy, curve) == Point(Some(xy[1]), Some(xy[2]), curve, TRUE)

\* WeierstrassCurve.add_point / TwistedEdwardCurve.add_point
add_point(curve, P, Q, objects) ==
    LET eq == __eq__(P, Q, objects)
    IN  IF eq.raised # "" THEN eq
        ELSE IF P._x = None \/ P._y = None \/ Q._x = None \/ Q._y = None
        THEN Raise("AttributeError")
        ELSE IF eq.val
        THEN PointOf(Affine(curve, Double(curve, Projective(curve, P))), curve)
        ELSE PointOf(Affine(curve, Sum(curve, Projective(curve, P),
                                       Projective(curve, Q))), curve)

\* mul_point up to the for loop: the locals, i the next index into k
mul_point_enter(curve, k, P) ==
    [k |-> bin(k), i |-> 1,
     R1 |-> Projective(curve, P),
     R2 |-> Double(curve, Projective(curve, P))]

\* one iteration of mul_point's for loop
mul_point_step(curve, l) ==
    IF l.k[l.i + 1] = 1
    THEN [l EXCEPT !.i = l.i + 1,
                   !.R1 = Sum(curve, l.R2, l.R1),
                   !.R2 = Double(curve, l.R2)]
    ELSE [l EXCEPT !.i = l.i + 1,
                   !.R2 = Sum(curve, l.R1, l.R2),
                   !.R1 = Double(curve, l.R1)]

\* mul_point after the loop
mul_point_leave(curve, l) == PointOf(Affine(curve, l.R1), curve)

(***************************************************************************)
(* MontgomeryCurve                                                         *)
(***************************************************************************)
\* the result is (x_2p, z_2p, x_pq, z_pq)
_ladder_step(curve, x_qp, x_p, z_p, x_q, z_q) ==
    LET p == curve._domain.field
        t1 == (x_p + z_p) % p
        t6 == (t1 * t1) % p
        t2 == (x_p - z_p) % p
        t7 == (t2 * t2) % p
        t5 == (t6 - t7) % p
        t3 == (x_q + z_q) % p
        t4 == (x_q - z_q) % p
        t8 == (t4 * t1) % p
        t9 == (t3 * t2) % p
    IN  <<((t6 * t7) % p) % p,
          (t5 * (t7 + curve.a24 * t5)) % p,
          ((t8 + t9) * (t8 + t9)) % p,
          (x_qp * (t8 - t9) * (t8 - t9)) % p>>

\* one iteration of _mul_point_x's loop on s = <<x2, z2, x3, z3>>
LadderBit(curve, ki, x1, s) ==
    LET t == _ladder_step(curve, x1, s[3], s[4], s[1], s[2])
    IN  IF ki = 1 THEN <<t[3], t[4], t[1], t[2]>>
        ELSE _ladder_step(curve, x1, s[1], s[2], s[3], s[4])

\* _mul_point_x's loop from index i on
RECURSIVE Ladder(_, _, _, _, _)
Ladder(curve, k, i, x1, s) ==
    IF i > Len(k) THEN s
    ELSE Ladder(curve, k, i + 1, x1, LadderBit(curve, k[i], x1, s))

_mul_point_x(curve, k, u) ==
    LET s == Ladder(curve, bin(k), 1, u, <<1, 0, u, 1>>)
        p == curve._domain.field
    IN  (s[1] * pow(s[2], p - 2, p)) % p

\* MontgomeryCurve.mul_point(k, P): P.curve is the curve of the call
mul_point_x(curve, k, P) ==
    IF P._x = None THEN Raise("AttributeError")
    ELSE Point(Some(_mul_point_x(curve, k, P._x[1])), None, curve, TRUE)

(***************************************************************************)
(* Curve._sqrt and the point encodings                                     *)
(***************************************************************************)
\* `while q & 1 == 0: q = q>>1; s = s+1` from s = 0: the final q and s
RECURSIVE OddPart(_)
OddPart(q) == IF q % 2 = 0 THEN OddPart(q \div 2) ELSE q

RECURSIVE TwoPower(_)
TwoPower(q) == IF q % 2 = 0 THEN 1 + TwoPower(q \div 2) ELSE 0

\* `while pow(z,(p-1)//2,p) == 1: z = z+1`
RECURSIVE NonResidue(_, _)
NonResidue(z, p) ==
    IF pow(z, (p - 1) \div 2, p) = 1 THEN NonResidue(z + 1, p) ELSE z

\* `for i in range(1,m): if pow(t,pow(2,i),p) == 1: break`: the value of i
\* after the loop (with m = 1 the loop is empty and i keeps its value, m)
RECURSIVE ForBreak(_, _, _, _)
ForBreak(t, i, m, p) ==
    IF i >= m - 1 THEN i
    ELSE IF pow(t, 2 ^ i, p) = 1 THEN i
    ELSE ForBreak(t, i + 1, m, p)

\* the `while True` loop
RECURSIVE TonelliLoop(_, _, _, _, _)
TonelliLoop(r, t, c, m, p) ==
    IF t = 1 THEN r
    ELSE LET i == ForBreak(t, 1, m, p)
             b == pow(c, 2 ^ (m - i - 1), p)
         IN  TonelliLoop((r * b) % p, (t * b * b) % p, (b * b) % p, i, p)

\* `if sign: sign = 1` and `if r & 1 != sign: r = p-r`
SignOf(r, p, sign) ==
    IF r % 2 # (IF sign # 0 THEN 1 ELSE 0) THEN p - r ELSE r

\* Curve._sqrt(n, p, sign): None or the root
_sqrt(n, p, sign) ==
    LET q == OddPart(p - 1)
        s == TwoPower(p - 1)
    IN  IF pow(n, (p - 1) \div 2, p) # 1 THEN None
        ELSE IF s = 1 THEN Some(SignOf(pow(n, (p + 1) \div 4, p), p, sign))
        ELSE Some(SignOf(TonelliLoop(pow(n, (q + 1) \div 2, p), pow(n, q, p),
                                     pow(NonResidue(2, p), q, p), s, p),
                         p, sign))

\* WeierstrassCurve.y_recover
y_recover(curve, x, sign) ==
    _sqrt((x * x * x + curve._domain.a * x + curve._domain.b) % curve._domain.field,
          curve._domain.field, sign)

\* WeierstrassCurve.encode_point; size is self.size>>3
encode_point_weierstrass(P, compressed, size) ==
    IF P._x = None THEN Raise("AttributeError")
    ELSE IF ~FitsBytes(P._x[1], size) THEN Raise("OverflowError")
    ELSE IF P._y = None THEN Raise("AttributeError")
    ELSE IF ~FitsBytes(P._y[1], size) THEN Raise("OverflowError")
    ELSE IF compressed
    THEN Ret(<<2>> \o to_bytes_big(P._x[1], size) \o <<P._y[1] % 2>>)
    ELSE Ret(<<4>> \o to_bytes_big(P._x[1], size) \o to_bytes_big(P._y[1], size))

\* WeierstrassCurve.decode_point; size is self.size>>3
decode_point_weierstrass(curve, xy, size) ==
    IF Len(xy) = 0 THEN Raise("IndexError")
    ELSE IF PyAt(xy, 0) = 2
    THEN IF 1 + size >= Len(xy) THEN Raise("IndexError")
         ELSE Point(Some(from_bytes_big(PySlice(xy, 1, 1 + size))),
                    y_recover(curve, from_bytes_big(PySlice(xy, 1, 1 + size)),
                              PyAt(xy, 1 + size)),
                    curve, FALSE)
    ELSE IF PyAt(xy, 0) = 4
    THEN Point(Some(from_bytes_big(PySlice(xy, 1, 1 + size))),
               Some(from_bytes_big(PySlice(xy, 1 + size, 1 + size + size))),
               curve, FALSE)
    ELSE Raise("ECPyException")

\* TwistedEdwardCurve._coord_size; None stands for the failed assert
_coord_size(curve) ==
    IF curve._domain.name = "Ed25519" THEN Some(32)
    ELSE IF curve._domain.name = "Ed448" THEN Some(57)
    ELSE None

\* TwistedEdwardCurve.x_recover; the failed asserts raise
x_recover(curve, y, sign) ==
    LET q == curve._domain.field
        yy == (y * y) % q
        u == (1 - yy) % q
        v == pow(curve._domain.a - curve._domain.d * yy, q - 2, q)
        xx == (u * v) % q
        x0 == pow(xx, (q + 3) \div 8, q)
        x == IF curve._domain.name = "Ed25519"
             THEN IF (x0 * x0 - xx) % q # 0
                  THEN (x0 * pow(2, (q - 1) \div 4, q)) % q
                  ELSE x0
             ELSE pow(xx, (q + 1) \div 4, q)
    IN  IF curve._domain.name \notin {"Ed25519", "Ed448"}
        THEN Raise("AssertionError")
        ELSE IF (SignOf(x, q, sign) * SignOf(x, q, sign)) % q = xx
        THEN Ret(SignOf(x, q, sign))
        ELSE Raise("AssertionError")

\* TwistedEdwardCurve.encode_point; size is self._coord_size()
encode_point_edward(P, size) ==
    IF size = None THEN Raise("AssertionError")
    ELSE IF P._y = None THEN Raise("AttributeError")
    ELSE IF ~FitsBytes(P._y[1], size[1]) THEN Raise("OverflowError")
    ELSE IF P._x = None THEN Raise("AttributeError")
    ELSE IF P._x[1] % 2 = 1
    THEN Ret([to_bytes_little(P._y[1], size[1]) EXCEPT
                 ![size[1]] = IF @ >= 128 THEN @ ELSE @ + 128])
    ELSE Ret(to_bytes_little(P._y[1], size[1]))

\* TwistedEdwardCurve.decode_point
decode_point_edward(curve, eP) ==
    LET sign == (eP[Len(eP)] \div 128) * 128
        y == from_bytes_little([eP EXCEPT ![Len(eP)] = @ % 128])
        x == x_recover(curve, y, sign)
    IN  IF Len(eP) = 0 THEN Raise("IndexError")
        ELSE IF x.raised # "" THEN x
        ELSE Point(Some(x.val), Some(y), curve, TRUE)

\* curve.encode_point(P) / curve.encode_point(P, compressed)
encode_point(curve, P, compressed) ==
    IF curve.class = "WeierstrassCurve"
    THEN encode_point_weierstrass(P, compressed, curve._domain.size \div 8)
    ELSE encode_point_edward(P, _coord_size(curve))

\* curve.decode_point(eP)
decode_point(curve, eP) ==
    IF curve.class = "WeierstrassCurve"
    THEN decode_point_weierstrass(curve, eP, curve._domain.size \div 8)
    ELSE decode_point_edward(curve, eP)

(***************************************************************************)
(* The curves of the point operations: domains given to the three          *)
(* constructors, with the shape of the registered ones over small fields.  *)
(*   - three Weierstrass curves of prime order: field = 3 mod 4 (the       *)
(*     _sqrt shortcut), field = 1 mod 4 (the Tonelli-Shanks loop), and a   *)
(*     field wider than size>>3 bytes (as secp521r1: size 521, 66 bytes);  *)
(*   - twisted Edwards curves with the two names _coord_size and x_recover *)
(*     accept: a = -1 over a field = 5 mod 8, a = 1 over a field = 3 mod 4;*)
(*   - a Montgomery curve with base point u = 9.                           *)
(***************************************************************************)
small_domains == <<
    [name |-> "w23", type |-> WEIERSTRASS, size |-> 8, field |-> 23,
     a |-> 1, b |-> 4, generator |-> <<1, 11>>, order |-> 29, cofactor |-> 1],
    [name |-> "w17", type |-> WEIERSTRASS, size |-> 8, field |-> 17,
     a |-> 2, b |-> 2, generator |-> <<3, 1>>, order |-> 19, cofactor |-> 1],
    [name |-> "w263", type |-> WEIERSTRASS, size |-> 9, field |-> 263,
     a |-> 4, b |-> 1, generator |-> <<1, 100>>, order |-> 281, cofactor |-> 1],
    [name |-> "Ed25519", type |-> TWISTEDEDWARD, size |-> 256, field |-> 29,
     a |-> -1, d |-> 27, generator |-> <<2, 23>>, order |-> 5],
    [name |-> "Ed448", type |-> TWISTEDEDWARD, size |-> 448, field |-> 19,
     a |-> 1, d |-> 2, generator |-> <<4, 14>>, order |-> 5],
    [name |-> "Curve25519", type |-> MONTGOMERY, size |-> 8, field |-> 29,
     a |-> 6, b |-> 1, generator |-> <<9, 8>>, order |-> 5] >>

\* the constructor of the domain's family before _set's last line: the
\* object whose _domain has the keys copied (and MontgomeryCurve's a24)
Copied(domain, ref) ==
    CASE domain.type = WEIERSTRASS ->
           [class |-> "WeierstrassCurve", ref |-> ref, _domain |-> domain]
      [] domain.type = TWISTEDEDWARD ->
           [class |-> "TwistedEdwardCurve", ref |-> ref, _domain |-> domain]
      [] domain.type = MONTGOMERY ->
           [class |-> "MontgomeryCurve", ref |-> ref, _domain |-> domain,
            a24 |-> (domain.a + 2) \div 4]

\* Curve._set's last line: self._domain['generator'] = Point(x, y, self)
Constructed(domain, ref) ==
    [Copied(domain, ref) EXCEPT !._domain.generator =
        Point(Some(domain.generator[1]), Some(domain.generator[2]),
              Copied(domain, ref), TRUE).val]

small_heap == [i \in 1..Len(small_domains) |-> Constructed(small_domains[i], i)]

\* the pairs (x, y) of field elements on each curve
AffinePoints ==
    [i \in 1..Len(small_heap) |->
        {xy \in (0..small_heap[i]._domain.field - 1)
                  \X (0..small_heap[i]._domain.field - 1) :
            Equation(small_heap[i], xy[1], xy[2])}]

MaxScalar == 40
MaxSecret == 12

Refs(class) == {i \in 1..Len(small_heap) : small_heap[i].class = class}

\* the caller's Point(x, y, curve) of an affine pair
PointAt(xy, curve) == PointOf(xy, curve).val

\* P + Q, curve.add_point(P, Q)
CallAddPoint ==
    /\ pc = "idle"
    /\ \E c \in Refs("WeierstrassCurve") \cup Refs("TwistedEdwardCurve") :
       \E P \in AffinePoints[c], Q \in AffinePoints[c] :
        /\ op' = "add_point"
        /\ args' = [curve |-> c, P |-> P, Q |-> Q]
        /\ ret' = add_point(heap[c], PointAt(P, heap[c]), PointAt(Q, heap[c]), heap)
    /\ pc' = "done"
    /\ UNCHANGED <<curves, heap, loc>>

\* k*P, curve.mul_point(k, P), up to the for loop
CallMulPoint ==
    /\ pc = "idle"
    /\ \E c \in Refs("WeierstrassCurve") \cup Refs("TwistedEdwardCurve") :
       \E P \in AffinePoints[c], k \in 0..MaxScalar :
        /\ op' = "mul_point"
        /\ args' = [curve |-> c, k |-> k, P |-> P]
        /\ IF PointAt(P, heap[c])._x = None \/ PointAt(P, heap[c])._y = None
           THEN /\ ret' = Raise("AttributeError")
                /\ pc' = "done"
                /\ loc' = loc
           ELSE /\ loc' = mul_point_enter(heap[c], k, PointAt(P, heap[c]))
                /\ pc' = "loop"
                /\ ret' = ret
    /\ UNCHANGED <<curves, heap>>

\* one iteration of mul_point's loop
MulPointStep ==
    /\ pc = "loop"
    /\ loc.i < Len(loc.k)
    /\ loc' = mul_point_step(heap[args.curve], loc)
    /\ UNCHANGED <<curves, heap, op, args, pc, ret>>

\* mul_point after the last iteration
MulPointReturn ==
    /\ pc = "loop"
    /\ loc.i = Len(loc.k)
    /\ ret' = mul_point_leave(heap[args.curve], loc)
    /\ pc' = "done"
    /\ UNCHANGED <<curves, heap, op, args, loc>>

\* `.x` of the Point a call returned
CoordX(r) ==
    IF r.raised # "" THEN r
    ELSE IF r.val._x = None THEN Raise("AttributeError")
    ELSE Ret(r.val._x[1])

\* k*R for the Point a call returned
MulReturned(curve, k, r) ==
    IF r.raised # "" THEN r ELSE mul_point_x(curve, k, r.val)

\* the two x handed out by the key agreement, or the first exception
SharedPair(kaG, kbG, shared1, shared2) ==
    IF kaG.raised # "" THEN kaG
    ELSE IF kbG.raised # "" THEN kbG
    ELSE IF shared1.raised # "" THEN shared1
    ELSE IF shared2.raised # "" THEN shared2
    ELSE Ret(<<shared1.val, shared2.val>>)

\* the key agreement of two parties with scalars kalice, kbob on G = Point(u, None, cv)
agree(curve, kalice, kbob, u) ==
    SharedPair(
        CoordX(mul_point_x(curve, kalice, Point(Some(u), None, curve, TRUE).val)),
        CoordX(mul_point_x(curve, kbob, Point(Some(u), None, curve, TRUE).val)),
        CoordX(MulReturned(curve, kbob,
                   mul_point_x(curve, kalice, Point(Some(u), None, curve, TRUE).val))),
        CoordX(MulReturned(curve, kalice,
                   mul_point_x(curve, kbob, Point(Some(u), None, curve, TRUE).val))))

CallAgree ==
    /\ pc = "idle"
    /\ \E c \in Refs("MontgomeryCurve") :
       \E P \in AffinePoints[c], ka \in 1..MaxSecret, kb \in 1..MaxSecret :
        /\ op' = "agree"
        /\ args' = [curve |-> c, u |-> P[1], kalice |-> ka, kbob |-> kb]
        /\ ret' = agree(heap[c], ka, kb, P[1])
    /\ pc' = "done"
    /\ UNCHANGED <<curves, heap, loc>>

\* curve.encode_point(P) and curve.encode_point(P, compressed)
CallEncodePoint ==
    /\ pc = "idle"
    /\ \E c \in Refs("WeierstrassCurve") \cup Refs("TwistedEdwardCurve") :
       \E P \in AffinePoints[c], compressed \in BOOLEAN :
        /\ heap[c].class = "TwistedEdwardCurve" => ~compressed
        /\ op' = "encode_point"
        /\ args' = [curve |-> c, P |-> P, compressed |-> compressed]
        /\ ret' = encode_point(heap[c], PointAt(P, heap[c]), compressed)
    /\ pc' = "done"
    /\ UNCHANGED <<curves, heap, loc>>

\* curve.decode_point(eP) of the bytes encode_point returned
CallDecodePoint ==
    /\ pc = "done"
    /\ op = "encode_point"
    /\ ret.raised = ""
    /\ op' = "decode_point"
    /\ ret' = decode_point(heap[args.curve], ret.val)
    /\ UNCHANGED <<curves, heap, args, pc, loc>>

InitPoint == InitIdle /\ curves = curves_literal /\ heap = small_heap

NextPoint ==
    \/ CallAddPoint
    \/ CallMulPoint
    \/ MulPointStep
    \/ MulPointReturn
    \/ CallAgree
    \/ CallEncodePoint
    \/ CallDecodePoint

SpecPoint == InitPoint /\ [][NextPoint]_vars

(***************************************************************************)
(* The group law the claims refer to, on affine pairs <<x, y>>, written    *)
(* from the textbook formulas and not from the code: chord and tangent on  *)
(* Weierstrass and Montgomery curves, with Infinity the neutral element,   *)
(* and the complete twisted Edwards addition law, with neutral <<0, 1>>.   *)
(***************************************************************************)
Infinity == <<>>

Fields == {small_domains[i].field : i \in 1..Len(small_domains)}

Inverse == [p \in Fields |-> [v \in 1..p - 1 |-> CHOOSE w \in 1..p - 1 : (v * w) % p = 1]]

Quotient(n, v, p) == ((n % p) * Inverse[p][v % p]) % p

Neutral(curve) ==
    IF curve.class = "TwistedEdwardCurve" THEN <<0, 1>> ELSE Infinity

Through(lam, A, B, p, a, b) ==
    LET x == (b * lam * lam - a - A[1] - B[1]) % p
    IN  <<x, (lam * (A[1] - x) - A[2]) % p>>

ChordTangent(curve, A, B) ==
    LET p == curve._domain.field
        a == curve._domain.a
    IN  IF A = Infinity THEN B
        ELSE IF B = Infinity THEN A
        ELSE IF A[1] = B[1] /\ (A[2] + B[2]) % p = 0 THEN Infinity
        ELSE IF curve.class = "WeierstrassCurve"
        THEN Through(IF A = B
                     THEN Quotient(3 * A[1] * A[1] + a, 2 * A[2], p)
                     ELSE Quotient(B[2] - A[2], B[1] - A[1], p),
                     A, B, p, 0, 1)
        ELSE Through(IF A = B
                     THEN Quotient(3 * A[1] * A[1] + 2 * a * A[1] + 1,
                                   2 * curve._domain.b * A[2], p)
                     ELSE Quotient(B[2] - A[2], B[1] - A[1], p),
                     A, B, p, a, curve._domain.b)

EdwardsLaw(curve, A, B) ==
    LET p == curve._domain.field
        t == (curve._domain.d * ((A[1] * B[1]) % p) * ((A[2] * B[2]) % p)) % p
    IN  <<Quotient(A[1] * B[2] + A[2] * B[1], 1 + t, p),
          Quotient(A[2] * B[2] - curve._domain.a * A[1] * B[1], 1 - t, p)>>

GroupSum(curve, A, B) ==
    IF curve.class = "TwistedEdwardCurve"
    THEN EdwardsLaw(curve, A, B)
    ELSE ChordTangent(curve, A, B)

Twice(curve, A) == GroupSum(curve, A, A)

\* k*A: 0*A is the neutral element, (2j)*A = j*A + j*A, (k+1)*A = k*A + A
RECURSIVE Multiple(_, _, _)
Multiple(curve, k, A) ==
    IF k = 0 THEN Neutral(curve)
    ELSE IF k % 2 = 0 THEN Twice(curve, Multiple(curve, k \div 2, A))
    ELSE GroupSum(curve, Multiple(curve, k - 1, A), A)

\* 1 <= k < order(A)
BelowOrder(curve, k, A) ==
    k >= 1 /\ \A j \in 1..k : Multiple(curve, j, A) # Neutral(curve)

\* the Point r is the affine pair A
IsPoint(r, A, curve) ==
    A # Infinity /\ r._x = Some(A[1]) /\ r._y = Some(A[2]) /\ r._curve = curve.ref

OnWeierstrass == op # "idle" /\ heap[args.curve].class = "WeierstrassCurve"

OnEdwards == op # "idle" /\ heap[args.curve].class = "TwistedEdwardCurve"

(***************************************************************************)
(* C4: on a short-Weierstrass curve, for all on-curve affine points P and  *)
(* Q with Q # -P, add_point(P, Q) returns, without raising, the Point      *)
(* whose coordinates are the affine group sum P+Q (the tangent when        *)
(* P = Q, the chord otherwise), and that Point satisfies the curve         *)
(* equation.                                                               *)
(***************************************************************************)
C4_AddIsGroupSum ==
    (op = "add_point" /\ OnWeierstrass
        /\ GroupSum(heap[args.curve], args.P, args.Q) # Infinity)
    => /\ ret.raised = ""
       /\ IsPoint(ret.val, GroupSum(heap[args.curve], args.P, args.Q),
                  heap[args.curve])
       /\ is_on_curve(heap[args.curve], ret.val) = Ret(TRUE)

(***************************************************************************)
(* C5: on Weierstrass and twisted Edwards curves, for every on-curve P and *)
(* every k with 1 <= k < order(P): at every iteration of mul_point's loop  *)
(* the two accumulators are projective representatives of m*P and (m+1)*P  *)
(* for the bit prefix m of k processed so far, and mul_point(k, P)         *)
(* returns, without raising, the Point whose coordinates are k*P.          *)
(***************************************************************************)
\* the value of the first i bits of k
RECURSIVE Prefix(_, _)
Prefix(k, i) == IF i = 0 THEN 0 ELSE 2 * Prefix(k, i - 1) + k[i]

\* the projective R stands for the affine A (Z = 0 for Infinity)
Represents(curve, R, A) ==
    LET p == curve._domain.field
    IN  IF A = Infinity THEN R[3] % p = 0
        ELSE /\ R[3] % p # 0
             /\ IF curve.class = "WeierstrassCurve"
                THEN /\ R[1] % p = (A[1] * R[3] * R[3]) % p
                     /\ R[2] % p = (A[2] * ((R[3] * R[3]) % p) * R[3]) % p
                ELSE /\ R[1] % p = (A[1] * R[3]) % p
                     /\ R[2] % p = (A[2] * R[3]) % p
                     /\ (R[4] * R[3]) % p = (R[1] * R[2]) % p

C5_MulPointIsMultiple ==
    (op = "mul_point" /\ BelowOrder(heap[args.curve], args.k, args.P))
    => /\ pc = "loop" =>
            /\ Represents(heap[args.curve], loc.R1,
                   Multiple(heap[args.curve], Prefix(loc.k, loc.i), args.P))
            /\ Represents(heap[args.curve], loc.R2,
                   Multiple(heap[args.curve], Prefix(loc.k, loc.i) + 1, args.P))
       /\ pc = "done" =>
            /\ ret.raised = ""
            /\ IsPoint(ret.val, Multiple(heap[args.curve], args.k, args.P),
                       heap[args.curve])

(***************************************************************************)
(* C6: on a Montgomery curve, for all scalars ka, kb >= 1 and every x      *)
(* coordinate u of a curve point P with (ka*kb)*P a finite point, the two  *)
(* parties' mul_point calls, kb*(ka*G) and ka*(kb*G) on G = Point(u, None),*)
(* yield without raising the same shared x, the x coordinate of (ka*kb)*P. *)
(***************************************************************************)
\* a curve point of x coordinate u
Lift(c, u) == CHOOSE P \in AffinePoints[c] : P[1] = u

SharedPoint ==
    Multiple(heap[args.curve], args.kalice * args.kbob, Lift(args.curve, args.u))

C6_SharedX ==
    (op = "agree" /\ SharedPoint # Infinity)
    => ret = Ret(<<SharedPoint[1], SharedPoint[1]>>)

(***************************************************************************)
(* C7: for every on-curve point P of a Weierstrass curve and both values   *)
(* of compressed, encode_point(P, compressed) returns 0x04 | x | y, or     *)
(* 0x02 | x | parity of y, each coordinate big-endian on size>>3 bytes,    *)
(* and decode_point of these bytes returns a Point that == P.              *)
(***************************************************************************)
\* b[from..from+n-1] is v big-endian
RECURSIVE BigEndian(_, _, _, _)
BigEndian(b, from, n, v) ==
    IF n = 0 THEN v = 0
    ELSE b[from + n - 1] = v % 256 /\ BigEndian(b, from, n - 1, v \div 256)

WeierstrassLayout(enc, P, compressed, size) ==
    /\ Len(enc) = IF compressed THEN size + 2 ELSE 2 * size + 1
    /\ enc[1] = IF compressed THEN 2 ELSE 4
    /\ BigEndian(enc, 2, size, P[1])
    /\ IF compressed THEN enc[size + 2] = P[2] % 2
       ELSE BigEndian(enc, size + 2, size, P[2])

C7_WeierstrassRoundTrip ==
    (pc = "done" /\ op \in {"encode_point", "decode_point"} /\ OnWeierstrass)
    => /\ ret.raised = ""
       /\ op = "encode_point" =>
            WeierstrassLayout(ret.val, args.P, args.compressed,
                              heap[args.curve]._domain.size \div 8)
       /\ op = "decode_point" =>
            __eq__(ret.val, PointAt(args.P, heap[args.curve]), heap) = Ret(TRUE)

(***************************************************************************)
(* C8: for every on-curve point P of a twisted Edwards curve (Ed25519,     *)
(* Ed448), encode_point(P) returns y little-endian on the curve's          *)
(* coordinate width with the low bit of x in the top bit of the last byte, *)
(* and decode_point of these bytes returns a Point that == P.              *)
(***************************************************************************)
\* b[from..Len(b)] is v little-endian once the top bit of the last byte is cleared
RECURSIVE LittleEndian(_, _, _)
LittleEndian(b, from, v) ==
    IF from > Len(b) THEN v = 0
    ELSE /\ (IF from = Len(b) THEN b[from] % 128 ELSE b[from]) = v % 256
         /\ LittleEndian(b, from + 1, v \div 256)

EdwardsLayout(enc, P, size) ==
    /\ Len(enc) = size
    /\ LittleEndian(enc, 1, P[2])
    /\ enc[size] \div 128 = P[1] % 2

C8_EdwardsRoundTrip ==
    (pc = "done" /\ op \in {"encode_point", "decode_point"} /\ OnEdwards)
    => /\ ret.raised = ""
       /\ op = "encode_point" =>
            EdwardsLayout(ret.val, args.P,
                          IF heap[args.curve]._domain.name = "Ed25519" THEN 32 ELSE 57)
       /\ op = "decode_point" =>
            __eq__(ret.val, PointAt(args.P, heap[args.curve]), heap) = Ret(TRUE)


(***************************************************************************)
(* Point operators and whole calls of mul_point                            *)
(***************************************************************************)
RECURSIVE mul_point_loop(_, _, _)
\* the next n iterations of mul_point's for loop (fewer when the index
\* reaches the end of k), the first half of them then the rest
mul_point_loop(curve, l, n) ==
    IF l.i >= Len(l.k) \/ n = 0 THEN l
    ELSE IF n = 1 THEN mul_point_step(curve, l)
    ELSE LET half == mul_point_loop(curve, l, n \div 2)
         IN  mul_point_loop(curve, half, n - n \div 2)

\* curve.mul_point(k, P) of WeierstrassCurve and TwistedEdwardCurve
mul_point(curve, k, P) ==
    IF P._x = None \/ P._y = None THEN Raise("AttributeError")
    ELSE mul_point_leave(curve, mul_point_loop(curve, mul_point_enter(curve, k, P),
                                               Len(bin(k)) - 1))

(***************************************************************************)
(* The hash objects handed to the signers, and the keys                    *)
(***************************************************************************)
RECURSIVE Absorb(_, _)
\* hasher.update(data) on a running state; update(a + b) is update(a) then
\* update(b), and the data is taken in two halves
Absorb(state, data) ==
    IF state < 0 \/ data = <<>> THEN state
    ELSE IF Len(data) = 1 THEN (state * 33 + data[1] + 1) % 65521
    ELSE LET first == Absorb(state, SubSeq(data, 1, Len(data) \div 2))
         IN  Absorb(first, SubSeq(data, Len(data) \div 2 + 1, Len(data)))

\* hasher().update(data), .digest(): digest_size bytes, a function of
\* data; the state is complete before the first byte is produced
Digest(hasher, data) ==
    LET state == Absorb(hasher.seed, data)
    IN  IF state < 0 THEN <<>>
        ELSE [i \in 1..hasher.digest_size |-> ((state + 1) * (2 * i + 11) + i) % 256]

\* keys.ECPrivateKey(d, curve)
ECPrivateKey(d, curve) == [d |-> d, curve |-> curve.ref]

\* keys.ECPublicKey(W): the point is validated with is_on_curve
ECPublicKey(W, objects) ==
    LET on == is_on_curve(objects[W._curve], W)
    IN  IF on.raised # "" THEN on
        ELSE IF ~on.val THEN Raise("ECPyException")
        ELSE Ret([W |-> W, curve |-> W._curve])

\* ECPrivateKey.get_public_key(): ECPublicKey(d * generator)
get_public_key(pv_key, objects) ==
    LET W == mul_point(objects[pv_key.curve], pv_key.d,
                       objects[pv_key.curve]._domain.generator)
    IN  IF W.raised # "" THEN W ELSE ECPublicKey(W.val, objects)

(***************************************************************************)
(* ECSchnorr                                                               *)
(***************************************************************************)
\* ECSchnorr.__init__(hasher)
ECSchnorr(hasher) == [_hasher |-> hasher, fmt |-> "DER", maxtries |-> 10]

\* ECSchnorr._do_sign(msg, pv_key, k), which sign_k returns
_do_sign(self, msg, pv_key, k, objects) ==
    LET curve == objects[pv_key.curve]
        n     == curve._domain.order
        size  == curve._domain.size \div 8
        Q     == mul_point(curve, k, curve._domain.generator)
    IN  IF CoordX(Q).raised # "" THEN CoordX(Q)
        ELSE IF ~FitsBytes(CoordX(Q).val % n, size) THEN Raise("OverflowError")
        ELSE LET xQ == to_bytes_big(CoordX(Q).val % n, size)
                 r  == from_bytes_big(Digest(self._hasher, xQ \o msg)) % n
                 s  == (k - r * pv_key.d) % n
             IN  encode_sig(r, s, "DER", 0)

\* ECSchnorr.verify(msg, sig, pu_key)
verify(self, msg, sig, pu_key, objects) ==
    LET curve == objects[pu_key.curve]
        n     == curve._domain.order
        G     == curve._domain.generator
        size  == curve._domain.size \div 8
        rs    == decode_sig(sig, self.fmt)
    IN  IF rs.raised # "" THEN rs
        ELSE IF rs.val[1] = None THEN Ret(FALSE)
        ELSE LET r == rs.val[1][1]
                 s == rs.val[2][1]
             IN  IF r > 2^(size * 8) - 1 \/ s = 0 \/ s > n - 1 THEN Ret(FALSE)
                 ELSE LET sG == mul_point(curve, s, G)
                          rW == mul_point(curve, r, pu_key.W)
                      IN  IF sG.raised # "" THEN sG
                          ELSE IF rW.raised # "" THEN rW
                          ELSE LET Q == add_point(curve, sG.val, rW.val, objects)
                               IN  IF CoordX(Q).raised # "" THEN CoordX(Q)
                                   ELSE IF ~FitsBytes(CoordX(Q).val % n, size)
                                   THEN Raise("OverflowError")
                                   ELSE Ret(r % n = r)

\* ecrand.rnd(q): the values a draw can return
rnd(q) == 1..(q - 1)

RECURSIVE sign_from(_, _, _, _, _, _)
\* ECSchnorr.sign's for loop from index i, ks[j] the nonce drawn in the
\* iteration of index j; the value carries the number of attempts made
sign_from(self, msg, pv_key, ks, i, objects) ==
    IF i >= self.maxtries THEN [raised |-> "", val |-> None, tries |-> i - 1]
    ELSE LET sig == _do_sign(self, msg, pv_key, ks[i], objects)
         IN  IF sig.raised # "" \/ sig.val # <<>>          \* `if sig:` on bytes or None
             THEN [raised |-> sig.raised, val |-> sig.val, tries |-> i]
             ELSE sign_from(self, msg, pv_key, ks, i + 1, objects)

\* ECSchnorr.sign(msg, pv_key) for the draws ks
sign(self, msg, pv_key, ks, objects) == sign_from(self, msg, pv_key, ks, 1, objects)

(***************************************************************************)
(* ECSchnorr: inputs and actions                                           *)
(***************************************************************************)
MaxNonce == 30
MaxTail == 2

\* the hash constructors given to the signers: one- and two-byte digests
Hashers == {[digest_size |-> 1, seed |-> 7], [digest_size |-> 2, seed |-> 11]}

Messages == {<<>>, <<1>>, <<97, 98>>}

\* the private scalars of the key pairs of curve c whose public key exists
KeyScalars(c) ==
    {d \in 1..Min(MaxSecret, small_heap[c]._domain.order - 1) :
        get_public_key(ECPrivateKey(d, small_heap[c]), small_heap).raised = ""}

PublicKeyOf(c, d) == get_public_key(ECPrivateKey(d, small_heap[c]), small_heap).val

\* a DER SEQUENCE of two INTEGERs as a sender may write it, 0 as an empty body
DerPair(r, s) ==
    LET rb == IF r = 0 THEN <<>> ELSE der_int(r)
        sb == IF s = 0 THEN <<>> ELSE der_int(s)
    IN  <<48, Len(rb) + Len(sb) + 4, 2, Len(rb)>> \o rb \o <<2, Len(sb)>> \o sb

\* the scalars around the bounds that verify tests, for a curve of order n
EdgeScalars(n) == (0..MaxTail) \cup ((n - MaxTail)..(n + MaxTail)) \cup {255, 256}

\* byte strings received as a signature: well-formed pairs, and one pair
\* truncated, extended, and with a wrong tag
Received(n) ==
    {DerPair(r, s) : r \in EdgeScalars(n), s \in EdgeScalars(n)}
      \cup {SubSeq(DerPair(1, 1), 1, j) : j \in 0..7}
      \cup {DerPair(1, 1) \o <<0>>, <<49>> \o Tail(DerPair(1, 1)),
            <<48, 6, 3, 1, 1, 2, 1, 1>>}

\* signer.sign_k(msg, pv_key, k)
CallSignK ==
    /\ pc = "idle"
    /\ \E c \in Refs("WeierstrassCurve") :
       \E d \in KeyScalars(c), k \in 1..Min(MaxNonce, heap[c]._domain.order - 1),
          msg \in Messages, hasher \in Hashers :
        /\ args' = [curve |-> c, d |-> d, k |-> k, msg |-> msg, hasher |-> hasher]
        /\ ret' = _do_sign(ECSchnorr(hasher), msg, ECPrivateKey(d, heap[c]), k, heap)
    /\ op' = "sign_k"
    /\ pc' = "done"
    /\ UNCHANGED <<curves, heap, loc>>

\* signer.sign(msg, pv_key): the first draw, and the draw of the later iterations
CallSign ==
    /\ pc = "idle"
    /\ \E c \in Refs("WeierstrassCurve") :
       \E d \in KeyScalars(c), msg \in Messages, hasher \in Hashers,
          k1 \in rnd(heap[c]._domain.field) \cap (1..MaxNonce),
          k2 \in rnd(heap[c]._domain.field) \cap (1..MaxTail) :
        /\ args' = [curve |-> c, d |-> d, k |-> k1, msg |-> msg, hasher |-> hasher]
        /\ LET out == sign(ECSchnorr(hasher), msg, ECPrivateKey(d, heap[c]),
                           [i \in 1..ECSchnorr(hasher).maxtries |->
                               IF i = 1 THEN k1 ELSE k2], heap)
           IN  /\ ret' = [raised |-> out.raised, val |-> out.val]
               /\ loc' = [tries |-> out.tries]
    /\ op' = "sign"
    /\ pc' = "done"
    /\ UNCHANGED <<curves, heap>>

\* signer.verify(msg, sig, pu_key) on what sign_k or sign returned
CallVerifySigned ==
    /\ pc = "done"
    /\ op \in {"sign_k", "sign"}
    /\ ret.raised = ""
    /\ ret.val # None
    /\ \E msg \in Messages :
        /\ args' = [args EXCEPT !.msg = msg]
        /\ loc' = [sig |-> ret.val, signed |-> args.msg, by |-> op]
        /\ ret' = verify(ECSchnorr(args.hasher), msg, ret.val,
                         PublicKeyOf(args.curve, args.d), heap)
    /\ op' = "verify_signed"
    /\ UNCHANGED <<curves, heap, pc>>

\* signer.verify(msg, sig, pu_key) on received bytes
CallVerify ==
    /\ pc = "idle"
    /\ \E c \in Refs("WeierstrassCurve") :
       \E d \in KeyScalars(c), msg \in Messages, hasher \in Hashers,
          sig \in Received(heap[c]._domain.order) :
        /\ args' = [curve |-> c, d |-> d, msg |-> msg, hasher |-> hasher, sig |-> sig]
        /\ ret' = verify(ECSchnorr(hasher), msg, sig, PublicKeyOf(c, d), heap)
    /\ op' = "verify"
    /\ pc' = "done"
    /\ UNCHANGED <<curves, heap, loc>>

NextSchnorr ==
    \/ CallSignK
    \/ CallSign
    \/ CallVerifySigned
    \/ CallVerify

SpecSchnorr == InitPoint /\ [][NextSchnorr]_vars

(***************************************************************************)
(* ECSchnorr: properties                                                   *)
(***************************************************************************)
\* C12: for every key pair (d, W = d*G) on a Weierstrass curve, every
\* message and every nonce k in [1, n-1], sign_k returns a signature, and
\* verify of the signed message with that signature and W returns true.
C12_SignKThenVerify ==
    /\ (pc = "done" /\ op = "sign_k") => ret.raised = "" /\ ret.val # None
    /\ (pc = "done" /\ op = "verify_signed" /\ loc.by = "sign_k"
          /\ args.msg = loc.signed) => ret.raised = "" /\ ret.val = TRUE

\* the pair a received signature decodes to, None when it does not decode
Decoded(sig) ==
    IF decode_sig(sig, "DER").raised # "" \/ decode_sig(sig, "DER").val[1] = None
    THEN None
    ELSE <<decode_sig(sig, "DER").val[1][1], decode_sig(sig, "DER").val[2][1]>>

\* C13: verify's verdict does not depend on the message or on the hash:
\* for a signature decoding to (r, s) it is true when r < n and
\* 1 <= s <= n-1, and false when r >= n, s = 0 or s > n-1.
C13_VerdictFromScalarsOnly ==
    (pc = "done" /\ op = "verify" /\ Decoded(args.sig) # None) =>
        LET r == Decoded(args.sig)[1]
            s == Decoded(args.sig)[2]
            n == heap[args.curve]._domain.order
        IN  ret.raised = "" /\ ret.val = (r < n /\ 1 <= s /\ s <= n - 1)

\* C14: sign terminates without raising: it makes at most maxtries
\* attempts, returns the signature of the first attempt that succeeds, and
\* returns None only after exactly maxtries failed attempts.
C14_SignBoundedAttempts ==
    (pc = "done" /\ op = "sign") =>
        /\ ret.raised = ""
        /\ loc.tries <= ECSchnorr(args.hasher).maxtries
        /\ ret.val = None => loc.tries = ECSchnorr(args.hasher).maxtries
        /\ ret.val # None =>
             ret = _do_sign(ECSchnorr(args.hasher), args.msg,
                            ECPrivateKey(args.d, heap[args.curve]), args.k, heap)

(***************************************************************************)
(* Integers wider than the machine word: an int is held as its             *)
(* little-endian base-256 digits without the high zeros                    *)
(***************************************************************************)
\* int.from_bytes(b, 'little') as a wide int
int_from_bytes(b) ==
    LET set == {i \in 1..Len(b) : b[i] # 0}
    IN  IF set = {} THEN <<>>
        ELSE SubSeq(b, 1, CHOOSE i \in set : \A j \in set : j <= i)

\* v.to_bytes(size, 'little') of a wide int
int_to_bytes(v, size) ==
    IF Len(v) > size THEN Raise("OverflowError")
    ELSE Ret(v \o [i \in 1..(size - Len(v)) |-> 0])

RECURSIVE int_mod(_, _)
\* v % n of a wide int, n a machine integer
int_mod(v, n) ==
    IF v = <<>> THEN 0
    ELSE IF Len(v) = 1 THEN v[1] % n
    ELSE LET half == Len(v) \div 2
         IN  (int_mod(SubSeq(v, 1, half), n)
                + pow(256, half, n) * int_mod(SubSeq(v, half + 1, Len(v)), n)) % n

\* bin(v)[2:] of a wide int, the most significant bit first
int_bits(v) ==
    LET all == [j \in 1..(8 * Len(v)) |->
                   (v[Len(v) - ((j - 1) \div 8)] \div 2^(7 - ((j - 1) % 8))) % 2]
        lead == CHOOSE j \in 1..8 : all[j] = 1 /\ \A i \in 1..(j - 1) : all[i] = 0
    IN  IF v = <<>> THEN <<0>> ELSE SubSeq(all, lead, Len(all))

\* curve.mul_point(k, P) of a wide int k
mul_point_wide(curve, k, P) ==
    IF P._x = None \/ P._y = None THEN Raise("AttributeError")
    ELSE mul_point_leave(curve, mul_point_loop(curve,
             [mul_point_enter(curve, 0, P) EXCEPT !.k = int_bits(k)],
             Len(int_bits(k)) - 1))

(***************************************************************************)
(* EDDSA                                                                   *)
(***************************************************************************)
\* EDDSA.__init__(hasher), fmt left at its default
EDDSA(hasher) == [_hasher |-> hasher, fmt |-> "EDDSA"]

\* a = bytearray(h[:32]); a[0] &= 0xF8; a[31] = (a[31] & 0x7F) | 0x40;
\* int.from_bytes(a, 'little')
Clamped(h) ==
    IF Len(PySlice(h, 0, 32)) < 32 THEN Raise("IndexError")
    ELSE Ret(int_from_bytes([PySlice(h, 0, 32) EXCEPT ![1] = (@ \div 8) * 8,
                                                      ![32] = (@ % 64) + 64]))

\* EDDSA.get_interal_private_key(pv_key, hasher)
get_interal_private_key(pv_key, hasher, objects) ==
    LET size == objects[pv_key.curve]._domain.size \div 8
    IN  IF ~FitsBytes(pv_key.d, size) THEN Raise("OverflowError")
        ELSE IF Clamped(Digest(hasher, to_bytes_big(pv_key.d, size))).raised # ""
        THEN Clamped(Digest(hasher, to_bytes_big(pv_key.d, size)))
        ELSE Ret([d |-> Clamped(Digest(hasher, to_bytes_big(pv_key.d, size))).val,
                  curve |-> pv_key.curve])

\* EDDSA.get_public_key(pv_key, hasher)
EDDSA_get_public_key(pv_key, hasher, objects) ==
    LET a == get_interal_private_key(pv_key, hasher, objects)
        A == mul_point_wide(objects[pv_key.curve], a.val.d,
                            objects[pv_key.curve]._domain.generator)
    IN  IF a.raised # "" THEN a
        ELSE IF A.raised # "" THEN A
        ELSE ECPublicKey(A.val, objects)

\* EDDSA._do_sign(msg, pv_key), which sign returns; encode_sig is the EDDSA
\* branch of formatters.py on a wide eR
EDDSA_do_sign(self, msg, pv_key, objects) ==
    LET curve == objects[pv_key.curve]
        B     == curve._domain.generator
        n     == curve._domain.order
        size  == curve._domain.size \div 8
        h     == Digest(self._hasher, to_bytes_big(pv_key.d, size))
        a     == Clamped(h)
        A     == mul_point_wide(curve, a.val, B)
        eA    == encode_point(curve, A.val, FALSE)
        r     == int_mod(int_from_bytes(
                     Digest(self._hasher, PySlice(h, size, Len(h)) \o msg)), n)
        R     == mul_point(curve, r, B)
        eR    == encode_point(curve, R.val, FALSE)
        i     == int_from_bytes(Digest(self._hasher, eR.val \o eA.val \o msg))
        S     == (r + int_mod(i, n) * int_mod(a.val, n)) % n
        eRb   == int_to_bytes(int_from_bytes(eR.val), size)
    IN  IF ~FitsBytes(pv_key.d, size) THEN Raise("OverflowError")
        ELSE IF a.raised # "" THEN a
        ELSE IF A.raised # "" THEN A
        ELSE IF eA.raised # "" THEN eA
        ELSE IF R.raised # "" THEN R
        ELSE IF eR.raised # "" THEN eR
        ELSE IF size = 0 THEN Raise("NameError")
        ELSE IF eRb.raised # "" THEN eRb
        ELSE IF ~FitsBytes(S, size) THEN Raise("OverflowError")
        ELSE Ret(eRb.val \o to_bytes_little(S, size))

\* EDDSA.verify(msg, sig, pu_key); decode_sig is the EDDSA branch of
\* formatters.py with wide results
EDDSA_verify(self, msg, sig, pu_key, objects) ==
    LET curve == objects[pu_key.curve]
        n     == curve._domain.order
        size  == curve._domain.size \div 8
        eRi   == int_from_bytes(PySlice(sig, 0, Len(sig) \div 2))
        S     == int_from_bytes(PySlice(sig, Len(sig) \div 2, Len(sig)))
        eR    == int_to_bytes(eRi, size)
        R     == decode_point(curve, eR.val)
        eA    == encode_point(curve, pu_key.W, FALSE)
        h     == int_mod(int_from_bytes(
                     Digest(self._hasher, eR.val \o eA.val \o msg)), n)
        hA    == mul_point(curve, h, pu_key.W)
        left  == add_point(curve, R.val, hA.val, objects)
        right == mul_point_wide(curve, S, curve._domain.generator)
    IN  IF eR.raised # "" THEN eR
        ELSE IF R.raised # "" THEN R
        ELSE IF eA.raised # "" THEN eA
        ELSE IF hA.raised # "" THEN hA
        ELSE IF left.raised # "" THEN left
        ELSE IF right.raised # "" THEN right
        ELSE __eq__(left.val, right.val, objects)

(***************************************************************************)
(* EDDSA: inputs and actions                                               *)
(***************************************************************************)
MaxForged == 3

\* hash constructors with 64-, 32- and 20-byte digests
EddsaHashers == {[digest_size |-> 64, seed |-> 3], [digest_size |-> 32, seed |-> 5],
                 [digest_size |-> 20, seed |-> 9]}

Zeros(n) == [i \in 1..n |-> 0]

\* byte strings received as a signature by a verifier of a curve of
\* size bytes: pairs of 32-byte and of 56-byte little-endian values, pairs
\* with the top bit of R set, and strings that are too short or too long
EddsaReceived(size) ==
    {<<y>> \o Zeros(w - 1) \o <<s>> \o Zeros(w - 1) :
        y \in 0..MaxForged, s \in 0..MaxForged, w \in {32, 56}}
      \cup {<<y>> \o Zeros(size - 2) \o <<128>> \o <<s>> \o Zeros(size - 1) :
               y \in 0..MaxForged, s \in 0..MaxForged}
      \cup {<<>>, <<1, 1>>, Zeros(size) \o <<1>> \o <<1>> \o Zeros(size)}

\* signer.sign(msg, pv_key)
CallEddsaSign ==
    /\ pc = "idle"
    /\ \E c \in Refs("TwistedEdwardCurve") :
       \E d \in 1..MaxSecret, msg \in Messages, hasher \in EddsaHashers :
        /\ args' = [curve |-> c, d |-> d, msg |-> msg, hasher |-> hasher]
        /\ ret' = EDDSA_do_sign(EDDSA(hasher), msg, ECPrivateKey(d, heap[c]), heap)
    /\ op' = "eddsa_sign"
    /\ pc' = "done"
    /\ UNCHANGED <<curves, heap, loc>>

\* signer.verify(msg, sig, EDDSA.get_public_key(pv_key, hasher)) on what
\* sign returned
CallEddsaVerifySigned ==
    /\ pc = "done"
    /\ op = "eddsa_sign"
    /\ ret.raised = ""
    /\ \E msg \in Messages :
        /\ args' = [args EXCEPT !.msg = msg]
        /\ loc' = [sig |-> ret.val, signed |-> args.msg]
        /\ LET pu == EDDSA_get_public_key(ECPrivateKey(args.d, heap[args.curve]),
                                          args.hasher, heap)
           IN  ret' = IF pu.raised # "" THEN pu
                      ELSE EDDSA_verify(EDDSA(args.hasher), msg, ret.val, pu.val, heap)
    /\ op' = "eddsa_verify_signed"
    /\ UNCHANGED <<curves, heap, pc>>

\* signer.verify(msg, sig, pu_key) on received bytes
CallEddsaVerify ==
    /\ pc = "idle"
    /\ \E c \in Refs("TwistedEdwardCurve") :
       \E d \in 1..MaxForged, msg \in Messages, hasher \in EddsaHashers,
          sig \in EddsaReceived(heap[c]._domain.size \div 8) :
        /\ EDDSA_get_public_key(ECPrivateKey(d, heap[c]), hasher, heap).raised = ""
        /\ args' = [curve |-> c, d |-> d, msg |-> msg, hasher |-> hasher, sig |-> sig]
        /\ ret' = EDDSA_verify(EDDSA(hasher), msg, sig,
                      EDDSA_get_public_key(ECPrivateKey(d, heap[c]), hasher, heap).val,
                      heap)
    /\ op' = "eddsa_verify"
    /\ pc' = "done"
    /\ UNCHANGED <<curves, heap, loc>>

NextEddsa ==
    \/ CallEddsaSign
    \/ CallEddsaVerifySigned
    \/ CallEddsaVerify

SpecEddsa == InitPoint /\ [][NextEddsa]_vars

(***************************************************************************)
(* EDDSA: properties                                                       *)
(***************************************************************************)
\* the point A that _do_sign derives from the private key of a sign call
SignerPoint ==
    mul_point_wide(heap[args.curve],
        Clamped(Digest(args.hasher,
            to_bytes_big(args.d, heap[args.curve]._domain.size \div 8))).val,
        heap[args.curve]._domain.generator)

\* C15: on Ed25519, with the same hash in the signer, the verifier and the
\* key derivation, sign returns a signature for every private key and
\* message, verify of it under get_public_key(pv, hasher) returns true, and
\* the point A inside sign is get_public_key(pv, hasher).W.
C15_EddsaSignThenVerify ==
    (pc = "done" /\ heap[args.curve]._domain.name = "Ed25519") =>
        /\ op = "eddsa_sign" =>
             /\ ret.raised = ""
             /\ EDDSA_get_public_key(ECPrivateKey(args.d, heap[args.curve]),
                                     args.hasher, heap) = 
                  Ret([W |-> SignerPoint.val, curve |-> args.curve])
        /\ (op = "eddsa_verify_signed" /\ args.msg = loc.signed) =>
             ret.raised = "" /\ ret.val = TRUE

(***************************************************************************)
(* The two verifiers on received bytes                                     *)
(***************************************************************************)
NextVerifiers ==
    \/ CallVerify
    \/ CallEddsaVerify

SpecVerifiers == InitPoint /\ [][NextVerifiers]_vars

\* C16: ECSchnorr.verify and EDDSA.verify never raise: for every byte
\* string given as the signature the call returns a boolean.
C16_VerifyNeverRaises ==
    (pc = "done" /\ op \in {"verify", "eddsa_verify"}) =>
        ret.raised = "" /\ ret.val \in BOOLEAN

(***************************************************************************)
(* 8. curves.py: the Point class on its own: construction, comparison,     *)
(* negation and subtraction                                                *)
(***************************************************************************)
\* Point.__neg__: Point(self.x, curve.field - self.y, curve)
__neg__(P, objects) ==
    IF P._x = None THEN Raise("AttributeError")
    ELSE IF P._curve = NoCurve.ref THEN Raise("AttributeError")
    ELSE IF P._y = None THEN Raise("AttributeError")
    ELSE Point(P._x, Some(objects[P._curve]._domain.field - P._y[1]),
               objects[P._curve], TRUE)

\* Curve.sub_point: self.add_point(P, Q.neg()); MontgomeryCurve has Curve's
\* add_point, which raises NotImplementedError
sub_point(curve, P, Q, objects) ==
    LET neg == __neg__(Q, objects)
    IN  IF neg.raised # "" THEN neg
        ELSE IF curve.class = "MontgomeryCurve" THEN Raise("NotImplementedError")
        ELSE add_point(curve, P, neg.val, objects)

MaxCoord == 30

\* what a caller passes for a coordinate: None or an int
Coords == {None} \cup {Some(v) : v \in 0..MaxCoord}

SmallCoords == {None} \cup {Some(v) : v \in 0..2}

\* what a caller passes for the curve: a curve object or None
CurveArgs == {NoCurve.ref} \cup (1..Len(small_heap))

CurveArg(c, objects) == IF c = NoCurve.ref THEN NoCurve ELSE objects[c]

\* Point(x, y, curve, check)
CallPoint ==
    /\ pc = "idle"
    /\ \E x \in Coords, y \in Coords, c \in CurveArgs, check \in BOOLEAN :
        /\ (c # NoCurve.ref /\ x # None) => x[1] <= heap[c]._domain.field
        /\ (c # NoCurve.ref /\ y # None) => y[1] <= heap[c]._domain.field
        /\ op' = "Point"
        /\ args' = [x |-> x, y |-> y, curve |-> c, check |-> check]
        /\ ret' = Point(x, y, CurveArg(c, heap), check)
    /\ pc' = "done"
    /\ UNCHANGED <<curves, heap, loc>>

\* Point(x1, y1, c1, False) == Point(x2, y2, c2, False)
CallEq ==
    /\ pc = "idle"
    /\ \E x1 \in SmallCoords, y1 \in SmallCoords, x2 \in SmallCoords, y2 \in SmallCoords :
       \E c1 \in {NoCurve.ref, 1, 2}, c2 \in {NoCurve.ref, 1, 2} :
        /\ op' = "__eq__"
        /\ args' = [P |-> [x |-> x1, y |-> y1, curve |-> c1],
                    Q |-> [x |-> x2, y |-> y2, curve |-> c2]]
        /\ ret' = __eq__(Point(x1, y1, CurveArg(c1, heap), FALSE).val,
                         Point(x2, y2, CurveArg(c2, heap), FALSE).val, heap)
    /\ pc' = "done"
    /\ UNCHANGED <<curves, heap, loc>>

\* -P for an on-curve P
CallNeg ==
    /\ pc = "idle"
    /\ \E c \in 1..Len(small_heap) : \E P \in AffinePoints[c] :
        /\ op' = "__neg__"
        /\ args' = [curve |-> c, P |-> P]
        /\ loc' = [times |-> 1]
        /\ ret' = __neg__(PointAt(P, heap[c]), heap)
    /\ pc' = "done"
    /\ UNCHANGED <<curves, heap>>

\* -(-P): the negation of what the first negation returned
CallNegAgain ==
    /\ pc = "done"
    /\ op = "__neg__"
    /\ loc.times = 1
    /\ ret.raised = ""
    /\ loc' = [times |-> 2]
    /\ ret' = __neg__(ret.val, heap)
    /\ UNCHANGED <<curves, heap, op, args, pc>>

\* curve.sub_point(P, Q)
CallSubPoint ==
    /\ pc = "idle"
    /\ \E c \in 1..Len(small_heap) :
       \E P \in AffinePoints[c], Q \in AffinePoints[c] :
        /\ op' = "sub_point"
        /\ args' = [curve |-> c, P |-> P, Q |-> Q]
        /\ ret' = sub_point(heap[c], PointAt(P, heap[c]), PointAt(Q, heap[c]), heap)
    /\ pc' = "done"
    /\ UNCHANGED <<curves, heap, loc>>

NextPointClass ==
    \/ CallPoint
    \/ CallEq
    \/ CallNeg
    \/ CallNegAgain
    \/ CallSubPoint

SpecPointClass == InitPoint /\ [][NextPointClass]_vars

\* C17: P == Q returns a boolean for every pair of Points, including one
\* built with no curve, with a coordinate 0 or with an absent y, and the
\* boolean is true iff the x and the y match and either curve is
\* unspecified or both curves have the same name.
C17_EqIsTotal ==
    (pc = "done" /\ op = "__eq__") =>
        /\ ret.raised = ""
        /\ ret.val = (/\ args.P.x = args.Q.x
                      /\ args.P.y = args.Q.y
                      /\ \/ args.P.curve = NoCurve.ref
                         \/ args.Q.curve = NoCurve.ref
                         \/ heap[args.P.curve]._domain.name
                              = heap[args.Q.curve]._domain.name)

\* C18: Point(x, y, curve) with check true and y present raises "Point not
\* on curve" exactly when (x, y) does not satisfy the curve's equation, x = 0
\* and y = 0 included; with y absent or check false nothing is validated.
C18_ValidatedExactly ==
    (pc = "done" /\ op = "Point" /\ args.curve # NoCurve.ref /\ args.x # None) =>
        IF args.check /\ args.y # None
              /\ ~Equation(heap[args.curve], args.x[1], args.y[1])
        THEN ret.raised = "ECPyException"
        ELSE ret.raised = ""

\* the Point a curve uses for the neutral element of its group
IdentityPoint(curve) ==
    IF curve.class = "TwistedEdwardCurve"
    THEN [_x |-> None, _y |-> Some(1), _curve |-> curve.ref]
    ELSE [_x |-> None, _y |-> None, _curve |-> curve.ref]

\* C19: for every on-curve P of every curve family, -(-P) == P, and
\* sub_point(P, P), that is P + (-P), is the curve's representation of the
\* group identity.
C19_NegationIsInverse ==
    /\ (pc = "done" /\ op = "__neg__") =>
          /\ ret.raised = ""
          /\ loc.times = 2 =>
                LET eq == __eq__(ret.val, PointAt(args.P, heap[args.curve]), heap)
                IN  eq.raised = "" /\ eq.val = TRUE
    /\ (pc = "done" /\ op = "sub_point" /\ args.P = args.Q) =>
          /\ ret.raised = ""
          /\ ret.val = IdentityPoint(heap[args.curve])

(***************************************************************************)
(* 9. ecsnipet/draft/borromean-draft.py: Borromean ring signatures         *)
(*                                                                         *)
(* Curve.get_curve('secp256k1') is stood for by a curve of prime order 263 *)
(* over the field of 251 elements, and every 256-bit value of the draft    *)
(* (the digests, the numbers prand and rrand hand out) by an 8-bit one, so *)
(* that, as on secp256k1, they are below the order; the encodings keep     *)
(* their widths.  The draft hashes the module global m, never its msg      *)
(* parameter, so a call carries both.                                      *)
(***************************************************************************)
secp256k1_small ==
    [name |-> "secp256k1", type |-> WEIERSTRASS, size |-> 8, field |-> 251,
     a |-> 2, b |-> 43, generator |-> <<4, 93>>, order |-> 263, cofactor |-> 1]

borromean_heap == <<Constructed(secp256k1_small, 1)>>

\* hashlib.sha256
sha256 == [digest_size |-> 1, seed |-> 13]

\* what borromean_hash(m, e, i, j) feeds sha256 with
borromean_hashed(m, e, i, j) == e \o m \o to_bytes_big(i, 4) \o to_bytes_big(j, 4)

\* borromean_hash(m, e, i, j)
borromean_hash(m, e, i, j) == Digest(sha256, borromean_hashed(m, e, i, j))

\* point_to_bytes(point), compressed
point_to_bytes(point) ==
    IF point._x = None THEN Raise("AttributeError")
    ELSE IF point._y = None THEN Raise("AttributeError")
    ELSE Ret(<<IF point._y[1] % 2 = 1 THEN 3 ELSE 2>>
             \o to_bytes_big(point._x[1], 32))

\* prand(v): the byte 0xa0 + v, repeated
prand(v) == 160 + v

\* rrand(v): the byte 0x40 + v, repeated
rrand(v) == 64 + v

\* point_to_bytes of the point an expression gave, or its exception
point_result_to_bytes(R) == IF R.raised # "" THEN R ELSE point_to_bytes(R.val)

\* sG + eP of the two products, or the first exception
add_results(curve, sG, eP, objects) ==
    IF sG.raised # "" THEN sG
    ELSE IF eP.raised # "" THEN eP
    ELSE add_point(curve, sG.val, eP.val, objects)

\* point_to_bytes(s*G + e*P)
sG_eP(curve, s, e, P, objects) ==
    point_result_to_bytes(
        add_results(curve, mul_point(curve, s, curve._domain.generator),
                    mul_point(curve, e, P), objects))

\* r0 of ring i: the sum of the sizes of the rings before it
RECURSIVE RingStart(_, _)
RingStart(rings_size, i) ==
    IF i = 0 THEN 0 ELSE RingStart(rings_size, i - 1) + rings_size[i]

\* s[r0+j] = prand(r0+j); e_ij = point_to_bytes(sG_eP)
sign_store(l, at, next) ==
    [l EXCEPT !.raised = next.raised, !.s[at + 1] = Some(prand(at)),
              !.e_ij = next.val]

\* borromean_sign, steps 2-3, the loop on j of ring i (0-based i and j).
\* c holds the arguments of the call with the module global m and the
\* curve objects; l holds s, e_ij, what sha256_e0 was fed with, and the
\* first exception
RECURSIVE sign_forward(_, _, _, _)
sign_forward(c, i, j, l) ==
    IF l.raised # "" \/ j >= c.rings_size[i + 1] THEN l
    ELSE LET at == RingStart(c.rings_size, i) + j
         IN  sign_forward(c, i, j + 1,
                 sign_store(l, at,
                     sG_eP(c.curve, prand(at),
                           from_bytes_big(borromean_hash(c.m, l.e_ij, i, j)),
                           c.pubkeys[at + 1].W, c.objects)))

\* e_ij = point_to_bytes(kiG)
sign_enter(l, e_ij) == [l EXCEPT !.raised = e_ij.raised, !.e_ij = e_ij.val]

\* sha256_e0.update(e_ij) after the loop on j
sign_feed(l, ring) ==
    IF ring.raised # "" THEN ring ELSE [ring EXCEPT !.fed = l.fed \o ring.e_ij]

\* borromean_sign, steps 2-3, the loop on the rings from ring i on
RECURSIVE sign_step23(_, _, _)
sign_step23(c, i, l) ==
    IF l.raised # "" \/ i >= c.ring_count THEN l
    ELSE sign_step23(c, i + 1,
             sign_feed(l,
                 sign_forward(c, i, c.private_keys_index[i + 1] + 1,
                     sign_enter(l,
                         point_result_to_bytes(
                             mul_point(c.curve, rrand(i),
                                       c.curve._domain.generator))))))

\* s[r0+j] = prand(r0+j); e_ij = borromean_hash(m, point_to_bytes(sG_eP), i, j+1)
sign_back_store(c, i, j, l, at, next) ==
    [l EXCEPT !.raised = next.raised, !.s[at + 1] = Some(prand(at)),
              !.e = IF next.raised # "" THEN 0
                    ELSE from_bytes_big(borromean_hash(c.m, next.val, i, j + 1))]

\* borromean_sign, step 4, the loop on j below the known key of ring i:
\* l.e is e_ij as an int
RECURSIVE sign_backward(_, _, _, _)
sign_backward(c, i, j, l) ==
    IF l.raised # "" \/ j >= c.private_keys_index[i + 1] THEN l
    ELSE LET at == RingStart(c.rings_size, i) + j
         IN  sign_backward(c, i, j + 1,
                 sign_back_store(c, i, j, l, at,
                     sG_eP(c.curve, prand(at), l.e, c.pubkeys[at + 1].W,
                           c.objects)))

\* s[r0+secidx] = (ki - xi*e_ij) % order
sign_close(c, i, ring) ==
    IF ring.raised # "" THEN ring
    ELSE [ring EXCEPT !.s[RingStart(c.rings_size, i)
                            + c.private_keys_index[i + 1] + 1]
                         = Some((rrand(i) - c.privkeys[i + 1].d * ring.e)
                                   % c.curve._domain.order)]

\* borromean_sign, step 4, the loop on the rings from ring i on
RECURSIVE sign_step4(_, _, _, _)
sign_step4(c, e0, i, l) ==
    IF l.raised # "" \/ i >= c.ring_count THEN l
    ELSE sign_step4(c, e0, i + 1,
             sign_close(c, i,
                 sign_backward(c, i, 0,
                     [l EXCEPT !.e = from_bytes_big(
                                         borromean_hash(c.m, e0, i, 0))])))

\* [sij.to_bytes(32, 'big') for sij in s]: the bytes, or the first exception
RECURSIVE scalars_to_bytes(_, _)
scalars_to_bytes(s, done) ==
    IF Len(done) = Len(s) THEN Ret(done)
    ELSE IF s[Len(done) + 1] = None THEN Raise("AttributeError")
    ELSE IF ~FitsBytes(s[Len(done) + 1][1], 32) THEN Raise("OverflowError")
    ELSE scalars_to_bytes(s, Append(done, to_bytes_big(s[Len(done) + 1][1], 32)))

\* the arguments of a call, the module global m and the curve objects
BorromeanCall(pubkeys, privkeys, rings_size, private_keys_index, ring_count, msg, m, objects) ==
    [curve |-> objects[1], pubkeys |-> pubkeys, privkeys |-> privkeys,
     rings_size |-> rings_size, private_keys_index |-> private_keys_index,
     ring_count |-> ring_count, msg |-> msg, m |-> m, objects |-> objects]

\* return (e0, s)
sign_pack(e0, s) == IF s.raised # "" THEN s ELSE Ret(<<e0, s.val>>)

\* borromean_sign after step 4
sign_return(e0, step4) ==
    IF step4.raised # "" THEN Raise(step4.raised)
    ELSE sign_pack(e0, scalars_to_bytes(step4.s, <<>>))

\* sha256_e0.update(m); e0 = sha256_e0.digest(), and step 4
sign_commit(c, step23) ==
    LET e0 == Digest(sha256, step23.fed \o c.m)
    IN  sign_return(e0, sign_step4(c, e0, 0, step23))

\* borromean_sign(pubkeys, privkeys, rings_size, private_keys_index,
\*                ring_count, msg): (e0, s)
borromean_sign(c) ==
    sign_commit(c, sign_step23(c, 0,
        [raised |-> "", e_ij |-> <<>>, e |-> 0, fed |-> <<>>,
         s |-> [t \in 1..RingStart(c.rings_size, c.ring_count) |-> None]]))

\* e_ij = point_to_bytes(sG_eP), then borromean_hash of it or
\* sha256_e0.update of it; l.hashed is every string sha256 was fed with
verify_store(c, i, j, l, next) ==
    IF next.raised # "" THEN [l EXCEPT !.raised = next.raised]
    ELSE IF j # c.rings_size[i + 1] - 1
    THEN [l EXCEPT !.e_ij = borromean_hash(c.m, next.val, i, j + 1),
                   !.hashed = @ \cup {borromean_hashed(c.m, next.val, i, j + 1)}]
    ELSE [l EXCEPT !.e_ij = next.val, !.fed = l.fed \o next.val]

\* borromean_verify, the loop on j of ring i: l.e_ij is bytes
RECURSIVE verify_ring(_, _, _, _, _)
verify_ring(c, s, i, j, l) ==
    IF l.raised # "" \/ j >= c.rings_size[i + 1] THEN l
    ELSE verify_ring(c, s, i, j + 1,
             verify_store(c, i, j, l,
                 sG_eP(c.curve,
                       from_bytes_big(s[RingStart(c.rings_size, i) + j + 1]),
                       from_bytes_big(l.e_ij),
                       c.pubkeys[RingStart(c.rings_size, i) + j + 1].W,
                       c.objects)))

\* borromean_verify, the loop on the rings from ring i on
RECURSIVE verify_rings(_, _, _, _, _)
verify_rings(c, e0, s, i, l) ==
    IF l.raised # "" \/ i >= c.ring_count THEN l
    ELSE verify_rings(c, e0, s, i + 1,
             verify_ring(c, s, i, 0,
                 [l EXCEPT !.e_ij = borromean_hash(c.m, e0, i, 0),
                           !.hashed = @ \cup {borromean_hashed(c.m, e0, i, 0)}]))

\* borromean_verify up to the end of the loop on the rings
verify_loops(c, sig) ==
    verify_rings(c, sig[1], sig[2], 0,
                 [raised |-> "", e_ij |-> <<>>, fed |-> <<>>, hashed |-> {}])

\* sha256_e0.update(m); e0x = sha256_e0.digest(); return e0 == e0x
verify_return(c, sig, rings) ==
    IF rings.raised # "" THEN Raise(rings.raised)
    ELSE Ret(sig[1] = Digest(sha256, rings.fed \o c.m))

\* borromean_verify(pubkeys, rings_size, ring_count, msg, sig)
borromean_verify(c, sig) == verify_return(c, sig, verify_loops(c, sig))

\* every string a call of borromean_verify fed sha256 with
verify_hashed(c, rings) ==
    rings.hashed \cup (IF rings.raised # "" THEN {} ELSE {rings.fed \o c.m})

(***************************************************************************)
(* Borromean: inputs and actions                                           *)
(***************************************************************************)
MaxRings == 2
MaxRingSize == 3
MaxKeys == 4
MaxKeyBase == 4

\* rings_size with private_keys_index: every way to cut up to MaxKeys keys
\* into contiguous rings, with every position of the known key in each ring
Layouts ==
    {l \in UNION {[1..n -> 1..MaxRingSize] \X [1..n -> 0..MaxRingSize - 1] :
                     n \in 1..MaxRings} :
        /\ RingStart(l[1], Len(l[1])) <= MaxKeys
        /\ \A i \in 1..Len(l[1]) : l[2][i] < l[1][i]}

\* the private scalars behind the public keys of a call: keys spread over
\* the scalars, and every scalar for a lone key
Secrets(n) ==
    {[t \in 1..n |-> base + MaxKeyBase * (t - 1)] : base \in 1..MaxKeyBase}
      \cup (IF n = 1 THEN {<<d>> : d \in 1..secp256k1_small.order - 1} ELSE {})

\* the values of the module global m
Globals == {<<>>, <<97, 98>>}

\* the arguments of the two calls for a layout, a key set, a message and
\* the module global m
BorromeanArgs(l, secrets, msg, m, objects) ==
    BorromeanCall(
        [t \in 1..Len(secrets) |->
            get_public_key(ECPrivateKey(secrets[t], objects[1]), objects).val],
        [i \in 1..Len(l[1]) |->
            ECPrivateKey(secrets[RingStart(l[1], i - 1) + l[2][i] + 1], objects[1])],
        l[1], l[2], Len(l[1]), msg, m, objects)

\* a signature with one response scalar replaced by another 32-byte value,
\* or with e0 replaced by another value
Tampered(sig) ==
    ({<<sig[1], [sig[2] EXCEPT ![j] = to_bytes_big(v, 32)]>> :
         j \in 1..Len(sig[2]),
         v \in {0, secp256k1_small.order}}
       \cup {<<sig[1], [sig[2] EXCEPT ![j] = to_bytes_big(
                            from_bytes_big(sig[2][j]) + v, 32)]>> :
                j \in 1..Len(sig[2]), v \in {1, secp256k1_small.order}}
       \cup {<<e0, sig[2]>> :
                e0 \in {<<(sig[1][1] + 1) % 256>>, sig[1] \o <<0>>}})
      \ {sig}

\* sigma = borromean_sign(pubkeys, privkeys, rings_size, secidx, ring_count, msg)
CallBorromeanSign ==
    /\ pc = "idle"
    /\ \E l \in Layouts, msg \in Messages, m \in Globals :
       \E secrets \in Secrets(RingStart(l[1], Len(l[1]))) :
        /\ op' = "borromean_sign"
        /\ args' = [rings_size |-> l[1], private_keys_index |-> l[2],
                    secrets |-> secrets, msg |-> msg, m |-> m]
        /\ ret' = borromean_sign(BorromeanArgs(l, secrets, msg, m, heap))
    /\ pc' = "done"
    /\ UNCHANGED <<curves, heap, loc>>

\* borromean_verify(pubkeys, rings_size, ring_count, msg, sig) of the call c
\* on sig: the result, and in loc what was verified and hashed
Verified(c, sig, rings, accepted) ==
    /\ ret' = verify_return(c, sig, rings)
    /\ loc' = [sig |-> sig, msg |-> c.msg, hashed |-> verify_hashed(c, rings),
               accepted |-> accepted]

\* borromean_verify(pubkeys, rings_size, ring_count, msg, sigma) with the
\* message that was signed or another one
CallBorromeanVerify ==
    /\ pc = "done"
    /\ op = "borromean_sign"
    /\ ret.raised = ""
    /\ op' = "borromean_verify"
    /\ \E msg \in Messages :
       \E c \in {BorromeanArgs(<<args.rings_size, args.private_keys_index>>,
                               args.secrets, msg, args.m, heap)} :
       \E rings \in {verify_loops(c, ret.val)} :
          Verified(c, ret.val, rings, [sig |-> <<>>, hashed |-> {}])
    /\ UNCHANGED <<curves, heap, args, pc>>

\* borromean_verify of an accepted signature after a change to it
CallBorromeanVerifyTampered ==
    /\ pc = "done"
    /\ op = "borromean_verify"
    /\ ret.raised = ""
    /\ ret.val = TRUE
    /\ loc.msg = args.msg
    /\ op' = "borromean_verify_tampered"
    /\ \E sig \in Tampered(loc.sig) :
       \E c \in {BorromeanArgs(<<args.rings_size, args.private_keys_index>>,
                               args.secrets, loc.msg, args.m, heap)} :
       \E rings \in {verify_loops(c, sig)} :
          Verified(c, sig, rings, [sig |-> loc.sig, hashed |-> loc.hashed])
    /\ UNCHANGED <<curves, heap, args, pc>>

InitBorromean == InitIdle /\ curves = curves_literal /\ heap = borromean_heap

NextBorromean ==
    \/ CallBorromeanSign
    \/ CallBorromeanVerify
    \/ CallBorromeanVerifyTampered

SpecBorromean == InitBorromean /\ [][NextBorromean]_vars

\* C20: for every cut of the public keys into contiguous rings and every
\* position of the known key in each ring, borromean_sign returns a
\* signature with one 32-byte scalar per public key, and borromean_verify
\* of that signature with the message that was signed returns true.
C20_BorromeanSignThenVerify ==
    /\ (pc = "done" /\ op = "borromean_sign") =>
          /\ ret.raised = ""
          /\ Len(ret.val[2]) = Len(args.secrets)
          /\ \A t \in 1..Len(ret.val[2]) : Len(ret.val[2][t]) = 32
    /\ (pc = "done" /\ op = "borromean_verify" /\ loc.msg = args.msg) =>
          /\ ret.raised = ""
          /\ ret.val = TRUE

\* no two of the strings hashed have the same digest
CollisionFree(hashed) ==
    \A a, b \in hashed : a # b => Digest(sha256, a) # Digest(sha256, b)

\* C21: when a signature that borromean_verify accepted has one response
\* scalar replaced by a different 32-byte value, or e0 replaced by a
\* different value, borromean_verify returns false, as long as no two of
\* the strings hashed by the two verifications collide.
C21_TamperedIsRejected ==
    (pc = "done" /\ op = "borromean_verify_tampered"
       /\ CollisionFree(loc.hashed \cup loc.accepted.hashed)) =>
        /\ ret.raised = ""
        /\ ret.val = FALSE

\* C22: borromean_verify called with a message other than the one given to
\* borromean_sign returns false, whatever the module global m holds.
C22_BoundToMsgArgument ==
    (pc = "done" /\ op = "borromean_verify" /\ loc.msg # args.msg) =>
        /\ ret.raised = ""
        /\ ret.val = FALSE

(***************************************************************************)
(* 10. curves.py: decode_scalar_25519 and encode_scalar_25519              *)
(***************************************************************************)
\* x & 0xF8
AndF8(x) == (x \div 8) * 8

\* (x & 0x7F) | 0x40
And7FOr40(x) == IF ((x % 128) \div 64) % 2 = 1 THEN x % 128 ELSE (x % 128) + 64

\* k[0] &= 0xF8; k[31] = (k[31] & 0x7F) | 0x40 on a bytearray k, or the
\* IndexError of the first index that is out of range
clamp(k) ==
    IF Len(k) < 32 THEN Raise("IndexError")
    ELSE Ret([k EXCEPT ![1] = AndF8(@), ![32] = And7FOr40(@)])

\* Mutant of decode_scalar_25519: the bytes are read without the clamping.
decode_scalar_25519_unclamped(k) ==
    IF Len(k) < 32 THEN Raise("IndexError") ELSE Ret(int_from_bytes(k))

\* decode_scalar_25519(k): the int, wide
decode_scalar_25519(k) ==
    IF clamp(k).raised # "" THEN clamp(k) ELSE Ret(int_from_bytes(clamp(k).val))

\* the caller's k after decode_scalar_25519(k): bytearray(k) is a new
\* object and the assignments go to it
decode_scalar_25519_argument(k) == k

\* the longest bytearray that is allocated, above it MemoryError
MaxAlloc == 40

\* bytearray(k) of an int k: k zero bytes
bytearray_of_int(k) ==
    IF Len(k) > 8 \/ (Len(k) = 8 /\ k[8] >= 128) THEN Raise("OverflowError")
    ELSE IF Len(k) > 1 THEN Raise("MemoryError")
    ELSE IF from_bytes_little(k) > MaxAlloc THEN Raise("MemoryError")
    ELSE Ret([i \in 1..from_bytes_little(k) |-> 0])

\* encode_scalar_25519(k) of a wide int k >= 0: the result of
\* k.to_bytes(32, 'little') is dropped
encode_scalar_25519(k) ==
    IF int_to_bytes(k, 32).raised # "" THEN int_to_bytes(k, 32)
    ELSE IF bytearray_of_int(k).raised # "" THEN bytearray_of_int(k)
    ELSE clamp(bytearray_of_int(k).val)

(***************************************************************************)
(* Scalars: inputs and actions                                             *)
(***************************************************************************)
\* byte strings given as a scalar: 32 bytes with every kind of first and
\* last byte, and strings of other lengths
ScalarStrings ==
    {<<first>> \o [i \in 1..30 |-> mid] \o <<last>> :
        first \in {0, 1, 7, 8, 248, 255}, mid \in {0, 165, 255},
        last \in {0, 63, 64, 127, 128, 191, 192, 255}}
      \cup {<<>>, [i \in 1..31 |-> 255], [i \in 1..33 |-> 255]}

\* ints given as a scalar, wide: the small ones, the clamped ones, and ints
\* of up to 33 bytes
ScalarInts ==
    {int_from_bytes(<<v>>) : v \in 0..(MaxAlloc + 1)}
      \cup {clamp(b).val : b \in {s \in ScalarStrings : Len(s) = 32 /\ s[2] = 165}}
      \cup {int_from_bytes([i \in 1..n |-> 255]) : n \in {2, 7, 8, 31, 32, 33}}

\* k = decode_scalar_25519(b)
CallDecodeScalar ==
    /\ pc = "idle"
    /\ \E b \in ScalarStrings :
        /\ args' = [k |-> b]
        /\ loc' = [k |-> decode_scalar_25519_argument(b)]
        /\ ret' = decode_scalar_25519(b)
    /\ op' = "decode_scalar_25519"
    /\ pc' = "done"
    /\ UNCHANGED <<curves, heap>>

\* decode_scalar_25519(k.to_bytes(32, 'little')) of a decoded k
CallDecodeScalarAgain ==
    /\ pc = "done"
    /\ op = "decode_scalar_25519"
    /\ ret.raised = ""
    /\ int_to_bytes(ret.val, 32).raised = ""
    /\ loc' = [first |-> ret.val]
    /\ ret' = decode_scalar_25519(int_to_bytes(ret.val, 32).val)
    /\ op' = "decode_scalar_25519_again"
    /\ UNCHANGED <<curves, heap, args, pc>>

\* encode_scalar_25519(k)
CallEncodeScalar ==
    /\ pc = "idle"
    /\ \E k \in ScalarInts :
        /\ args' = [k |-> k]
        /\ ret' = encode_scalar_25519(k)
    /\ op' = "encode_scalar_25519"
    /\ pc' = "done"
    /\ UNCHANGED <<curves, heap, loc>>

\* decode_scalar_25519(encode_scalar_25519(k))
CallDecodeEncodedScalar ==
    /\ pc = "done"
    /\ op = "encode_scalar_25519"
    /\ ret.raised = ""
    /\ ret' = decode_scalar_25519(ret.val)
    /\ op' = "decode_encoded_scalar"
    /\ UNCHANGED <<curves, heap, args, loc, pc>>

NextScalar ==
    \/ CallDecodeScalar
    \/ CallDecodeScalarAgain
    \/ CallEncodeScalar
    \/ CallDecodeEncodedScalar

SpecScalar == InitSig /\ [][NextScalar]_vars

(***************************************************************************)
(* Scalars: properties                                                     *)
(***************************************************************************)
\* the wide int v is the little-endian value of the 32 bytes b with the low
\* 3 bits of byte 0 and bit 7 of byte 31 cleared and bit 6 of byte 31 set
ClampedValueOf(v, b) ==
    /\ Len(v) = 32
    /\ v[1] = b[1] - (b[1] % 8)
    /\ \A i \in 2..31 : v[i] = b[i]
    /\ v[32] = 64 + (b[32] % 64)

\* C23: for a 32-byte b, decode_scalar_25519(b) is the little-endian int of
\* b clamped, a multiple of 8 in [2^254, 2^255); decoding its 32-byte
\* little-endian encoding returns it again; the caller's b is unchanged.
C23_DecodeScalarClamps ==
    /\ (pc = "done" /\ op = "decode_scalar_25519" /\ Len(args.k) = 32) =>
          /\ ret.raised = ""
          /\ ClampedValueOf(ret.val, args.k)
          /\ ret.val[1] % 8 = 0
          /\ ret.val[32] >= 64 /\ ret.val[32] < 128
          /\ loc.k = args.k
    /\ (pc = "done" /\ op = "decode_scalar_25519_again" /\ Len(args.k) = 32) =>
          /\ ret.raised = ""
          /\ ret.val = loc.first

C23_Witness ==
    /\ pc = "done"
    /\ op = "decode_scalar_25519_again"
    /\ Len(args.k) = 32
    /\ args.k[1] % 8 # 0
    /\ args.k[32] >= 128
    /\ ret.raised = ""
    /\ int_to_bytes(ret.val, 32).val # args.k

\* C24: for an int k in [0, 2^256), encode_scalar_25519(k) is the 32-byte
\* little-endian encoding of k, clamped, and decode_scalar_25519 of it is k
\* when k is clamped already.
C24_EncodeScalar ==
    /\ (pc = "done" /\ op = "encode_scalar_25519" /\ Len(args.k) <= 32) =>
          /\ ret.raised = ""
          /\ ret.val = clamp(int_to_bytes(args.k, 32).val).val
    /\ (pc = "done" /\ op = "decode_encoded_scalar"
          /\ ClampedValueOf(args.k, int_to_bytes(args.k, 32).val)) =>
          /\ ret.raised = ""
          /\ ret.val = args.k

(***************************************************************************)
(* 11. Curve._sqrt, statement by statement                                 *)
(***************************************************************************)
MaxPrime == 41

\* the odd primes up to MaxPrime
OddPrimes == {p \in 3..MaxPrime : \A d \in 2..(p - 1) : p % d # 0}

\* Curve._sqrt(n, p, sign) up to the `while True` loop: the Euler test, the
\* split of p-1, and either the return of the s = 1 branch or the locals
\* z, c, r, t, m of the other
CallSqrt ==
    /\ pc = "idle"
    /\ \E p \in OddPrimes, n \in 0..MaxPrime, sgn \in 0..2 :
        /\ n < p
        /\ args' = [n |-> n, p |-> p, sign |-> sgn]
        /\ IF pow(n, (p - 1) \div 2, p) # 1
           THEN ret' = None /\ pc' = "done" /\ loc' = [iterations |-> 0]
           ELSE IF TwoPower(p - 1) = 1
           THEN /\ ret' = Some(SignOf(pow(n, (p + 1) \div 4, p), p, sgn))
                /\ pc' = "done"
                /\ loc' = [iterations |-> 0]
           ELSE /\ loc' = [r |-> pow(n, (OddPart(p - 1) + 1) \div 2, p),
                           t |-> pow(n, OddPart(p - 1), p),
                           c |-> pow(NonResidue(2, p), OddPart(p - 1), p),
                           m |-> TwoPower(p - 1), iterations |-> 0]
                /\ pc' = "while"
                /\ ret' = None
    /\ op' = "_sqrt"
    /\ UNCHANGED <<curves, heap>>

\* one pass of `while True` that does not break
SqrtWhile ==
    /\ pc = "while"
    /\ loc.t # 1
    /\ loc' = LET i == ForBreak(loc.t, 1, loc.m, args.p)
                  b == pow(loc.c, 2 ^ (loc.m - i - 1), args.p)
              IN  [r |-> (loc.r * b) % args.p, t |-> (loc.t * b * b) % args.p,
                   c |-> (b * b) % args.p, m |-> i,
                   iterations |-> loc.iterations + 1]
    /\ UNCHANGED <<curves, heap, op, args, pc, ret>>

\* `if t == 1: break`, then the sign and the return
SqrtReturn ==
    /\ pc = "while"
    /\ loc.t = 1
    /\ ret' = Some(SignOf(loc.r, args.p, args.sign))
    /\ pc' = "done"
    /\ UNCHANGED <<curves, heap, op, args, loc>>

NextSqrt ==
    \/ CallSqrt
    \/ SqrtWhile
    \/ SqrtReturn

SpecSqrt == InitSig /\ [][NextSqrt]_vars

\* the square roots of n modulo p
Roots(n, p) == {r \in 0..(p - 1) : (r * r) % p = n}

\* C25: _sqrt(n, p, sign) ends for an odd prime p and 0 <= n < p (the loop
\* runs fewer times than p-1 has factors 2); it returns None exactly when n
\* has no square root modulo p, and otherwise a root r in [0, p) whose low
\* bit is the sign bit, which is +-n^((p+1)/4) when p = 3 (mod 4).
C25_SqrtIsRoot ==
    /\ (pc = "while" /\ op = "_sqrt") =>
          /\ loc.m >= 1
          /\ loc.m + loc.iterations <= TwoPower(args.p - 1)
    /\ (pc = "done" /\ op = "_sqrt") =>
          /\ ret = _sqrt(args.n, args.p, args.sign)
          /\ (ret = None) <=> (Roots(args.n, args.p) = {})
          /\ ret # None =>
               /\ ret[1] \in Roots(args.n, args.p)
               /\ ret[1] % 2 = (IF args.sign # 0 THEN 1 ELSE 0)
               /\ args.p % 4 = 3 =>
                    ret[1] \in {pow(args.n, (args.p + 1) \div 4, args.p),
                                args.p - pow(args.n, (args.p + 1) \div 4, args.p)}

(***************************************************************************)
(* 12. decode_point on received bytes                                      *)
(***************************************************************************)
MaxByte == 30

\* byte strings received as an encoded point of the curve object c: for a
\* Weierstrass curve a tag, size>>3 bytes of x and a sign byte or as many
\* bytes of y, and cut strings; for an Edwards curve _coord_size() bytes
\* of y with the sign of x in the top bit, and strings of other lengths
ReceivedPoints(c) ==
    IF c.class = "WeierstrassCurve"
    THEN {<<tag>> \o to_bytes_big(x, c._domain.size \div 8)
                  \o to_bytes_big(y, c._domain.size \div 8) :
             tag \in {0, 2, 3, 4, 6}, x \in 0..MaxByte, y \in 0..MaxByte}
           \cup {<<tag>> \o to_bytes_big(x, c._domain.size \div 8) \o <<y>> :
                    tag \in {2, 3}, x \in 0..MaxByte, y \in 0..1}
           \cup {<<>>, <<2>>, <<4>>, <<2, 1>>, <<4, 1>>}
    ELSE {[to_bytes_little(y, _coord_size(c)[1]) EXCEPT
               ![_coord_size(c)[1]] = @ + 128 * top] :
             y \in 0..MaxByte, top \in 0..1}
           \cup {<<>>, <<1>>, <<1, 128>>}

\* curve.decode_point(eP) on received bytes
CallDecodeReceived ==
    /\ pc = "idle"
    /\ \E c \in Refs("WeierstrassCurve") \cup Refs("TwistedEdwardCurve") :
       \E eP \in ReceivedPoints(heap[c]) :
        /\ args' = [curve |-> c, eP |-> eP]
        /\ ret' = decode_point(heap[c], eP)
    /\ op' = "decode_received"
    /\ pc' = "done"
    /\ UNCHANGED <<curves, heap, loc>>

NextDecode ==
    \/ CallDecodeReceived
    \/ CallEncodePoint
    \/ CallDecodePoint

SpecDecode == InitPoint /\ [][NextDecode]_vars

\* the x of a Weierstrass encoding of the curve with size>>3 = size
EncodedX(eP, size) == from_bytes_big(SubSeq(eP, 2, 1 + size))

\* C26: WeierstrassCurve.decode_point of a compressed encoding (tag 2, x,
\* sign byte) whose x has no y on the curve raises instead of returning a
\* Point, and an encoding with a tag other than 2 and 4 raises
\* ECPyException ('Invalid encoded point').
C26_DecodePointFails ==
    (pc = "done" /\ op = "decode_received" /\ args.eP # <<>>
       /\ heap[args.curve].class = "WeierstrassCurve") =>
        /\ (/\ args.eP[1] = 2
            /\ Len(args.eP) = 2 + heap[args.curve]._domain.size \div 8
            /\ \A y \in 0..(heap[args.curve]._domain.field - 1) :
                  ~Equation(heap[args.curve],
                            EncodedX(args.eP, heap[args.curve]._domain.size \div 8), y))
           => ret.raised # ""
        /\ args.eP[1] \notin {2, 4} => ret.raised = "ECPyException"

\* C27: a Point returned by decode_point, of a Weierstrass or of an Edwards
\* curve, is on the curve: is_on_curve of it is true.
C27_DecodedIsOnCurve ==
    (pc = "done" /\ op \in {"decode_received", "decode_point"} /\ ret.raised = "") =>
        /\ is_on_curve(heap[args.curve], ret.val).raised = ""
        /\ is_on_curve(heap[args.curve], ret.val).val

(***************************************************************************)
(* 13. mul_point and the order of the point                                *)
(***************************************************************************)
\* the order of the affine point A when it is at most MaxScalar, else 0
PointOrder(curve, A) ==
    LET zero == {j \in 1..MaxScalar : Multiple(curve, j, A) = Neutral(curve)}
    IN  IF zero = {} THEN 0 ELSE CHOOSE j \in zero : \A i \in zero : j <= i

\* C28: for a Point P with both coordinates and k >= 0, mul_point(k, P)
\* with k a multiple of the order of P returns a Point that is not P and
\* has its coordinates set, and mul_point(k + order, P) returns what
\* mul_point(k, P) returns.
C28_MulPointModOrder ==
    (pc = "done" /\ op = "mul_point"
       /\ PointAt(args.P, heap[args.curve])._x # None
       /\ PointAt(args.P, heap[args.curve])._y # None) =>
        LET curve == heap[args.curve]
            P     == PointAt(args.P, curve)
            order == PointOrder(curve, args.P)
        IN  /\ ret.raised = ""
            /\ (args.k = 0 \/ (order # 0 /\ args.k % order = 0)) =>
                  /\ ret.val # P
                  /\ ret.val._x # None
                  /\ ret.val._y # None
            /\ (order # 0 /\ args.k >= order) =>
                  ret = mul_point(curve, args.k - order, P)

(***************************************************************************)
(* 14. EDDSA: the scalar part of an accepted signature plus the order      *)
(***************************************************************************)
\* sig with its scalar half S replaced by S + n, little-endian on the same
\* number of bytes
ShiftedByOrder(sig, n) ==
    LET l == Len(sig) \div 2
    IN  PySlice(sig, 0, l)
          \o to_bytes_little(from_bytes_little(PySlice(sig, l, Len(sig))) + n, l)

\* signer.verify(msg, R || S + n, pu_key) after verify accepted R || S
CallEddsaVerifyShifted ==
    /\ pc = "done"
    /\ op = "eddsa_verify_signed"
    /\ ret.raised = ""
    /\ ret.val = TRUE
    /\ args.msg = loc.signed
    /\ \E sig \in {ShiftedByOrder(loc.sig, heap[args.curve]._domain.order)} :
        /\ FitsBytes(from_bytes_little(PySlice(sig, Len(sig) \div 2, Len(sig))),
                     Len(sig) \div 2) = TRUE
        /\ loc' = [sig |-> sig, signed |-> loc.signed]
        /\ LET pu == EDDSA_get_public_key(ECPrivateKey(args.d, heap[args.curve]),
                                          args.hasher, heap)
           IN  ret' = EDDSA_verify(EDDSA(args.hasher), args.msg, sig, pu.val, heap)
    /\ op' = "eddsa_verify_shifted"
    /\ UNCHANGED <<curves, heap, pc, args>>

NextMalleable ==
    \/ CallEddsaSign
    \/ CallEddsaVerifySigned
    \/ CallEddsaVerifyShifted

SpecMalleable == InitPoint /\ [][NextMalleable]_vars

\* C29: when verify accepted the signature (R, S) for a message and a
\* public key, verify of (R, S + n) for the same message and key, S + n
\* still fitting the width of the scalar, returns false.
C29_ScalarBelowOrder ==
    (pc = "done" /\ op = "eddsa_verify_shifted") =>
        ret.raised = "" /\ ret.val = FALSE

(***************************************************************************)
(* 15. curves.py: encode_point on the curves of the registry               *)
(***************************************************************************)
\* (v.bit_length()+7)//8 of a magnitude; a limb holds three bytes
BigByteLen(m) == IF m = <<>> THEN 0 ELSE 3 * (Len(m) - 1) + ByteLen(m[Len(m)])

\* byte i, counted from the least significant byte 0, of a magnitude
BigByte(m, i) == (Limb(m, (i \div 3) + 1) \div 256^(i % 3)) % 256

\* 256^n as a magnitude
BigPow256(n) == [i \in 1..((n \div 3) + 1) |-> IF i = (n \div 3) + 1 THEN 256^(n % 3) ELSE 0]

\* v.to_bytes(n, 'big') and v.to_bytes(n, 'little') of a literal v
to_bytes_lit(v, n, byteorder) ==
    IF LitNeg(v) \/ BigByteLen(LitMag(v)) > n THEN Raise("OverflowError")
    ELSE Ret([i \in 1..n |-> BigByte(LitMag(v), IF byteorder = "big" THEN n - i ELSE i - 1)])

\* enc.extend(x); enc.extend(y)
extend_xy(enc, x, y, P, compressed) ==
    IF x.raised # "" THEN x
    ELSE IF y.raised # "" THEN y
    ELSE IF compressed THEN Ret(<<2>> \o x.val \o <<BigByte(LitMag(P._y[1]), 0) % 2>>)
    ELSE Ret(enc \o x.val \o y.val)

\* WeierstrassCurve.encode_point(P, compressed)
encode_point_weierstrass_lit(self, P, compressed) ==
    IF P._x = None \/ P._y = None THEN Raise("AttributeError")
    ELSE extend_xy(<<4>>, to_bytes_lit(P._x[1], self._domain.size \div 8, "big"),
                   to_bytes_lit(P._y[1], self._domain.size \div 8, "big"), P, compressed)

\* MontgomeryCurve.encode_point(P)
encode_point_montgomery_lit(self, P) ==
    IF P._x = None THEN Raise("AttributeError")
    ELSE to_bytes_lit(P._x[1], self._domain.size \div 8, "little")

\* c.encode_point(c.generator, compressed) on a curve a lookup returned
CallEncodeGenerator ==
    /\ \E ref \in DOMAIN heap, compressed \in BOOLEAN :
          /\ heap[ref].class \in {"WeierstrassCurve", "MontgomeryCurve"}
          /\ heap[ref].class = "MontgomeryCurve" => ~compressed
          /\ args' = [curve |-> ref, compressed |-> compressed]
          /\ ret' = IF heap[ref].class = "MontgomeryCurve"
                    THEN encode_point_montgomery_lit(heap[ref], heap[ref]._domain.generator)
                    ELSE encode_point_weierstrass_lit(heap[ref],
                             heap[ref]._domain.generator, compressed)
    /\ op' = "encode_generator"
    /\ pc' = "done"
    /\ UNCHANGED <<curves, heap, loc>>

NextWidth == CallGetCurve \/ CallEncodeGenerator

SpecWidth == InitRegistry /\ [][NextWidth]_vars

\* C30: every Weierstrass and Montgomery entry of the table has
\* field <= 256^(size>>3), and encode_point of the generator of such a
\* curve returns, without raising, 1 + 2*(size>>3) bytes uncompressed on a
\* Weierstrass curve and size>>3 bytes on a Montgomery curve.
C30_WidthHoldsField ==
    /\ \A i \in DOMAIN curves :
          curves[i].type \in {WEIERSTRASS, MONTGOMERY} =>
              ~BigLess(BigPow256(curves[i].size \div 8), LitMag(curves[i].field))
    /\ (op = "encode_generator" /\ ~args.compressed) =>
          /\ ret.raised = ""
          /\ Len(ret.val) = IF heap[args.curve].class = "MontgomeryCurve"
                            THEN heap[args.curve]._domain.size \div 8
                            ELSE 1 + 2 * (heap[args.curve]._domain.size \div 8)
====
